------------------------------ MODULE Monitor -------------------------------
(***************************************************************************)
(* One monitoring run (bcm/monitor.py): the rug-pull gate of __init__,     *)
(* then run().  Without a duration the adapter's stream is iterated in the *)
(* caller's thread; with one, a daemon thread pumps it into an unbounded   *)
(* queue that the caller consumes with a bounded wait.  The adapter may    *)
(* yield, block without yielding, end or raise, and its block() and the    *)
(* on_alert callback may raise.                                            *)
(***************************************************************************)
EXTENDS Naturals, SequencesExt

CONSTANTS Behaviour, Verdict, Tool, NoTool, Event,      \* see module Audit
          MaxEvents,    \* the values of max_events to consider
          Unlimited,    \* max_events is None
          StreamBound   \* bound of the model: events the adapter yields

ASSUME MonitorAssumption ==
    MaxEvents \subseteq Nat \cup {Unlimited} /\ Unlimited \notin Nat /\ StreamBound \in Nat

VARIABLES config,       \* [mode, max, timed, drift, allow_drift], fixed
          pc,           \* where the thread calling the monitor is
          stream,       \* "open", "ended" or "failed"
          emitted,      \* history: the events the adapter has yielded
          pump,         \* "off", "on" or "done"
          events_q,     \* <<e>> for an event, << >> for the sentinel None
          pump_error,
          expired,      \* the deadline has passed
          cur,          \* what was taken from the stream and not yet handled
          tool_ctx, report,
          alerted, blocked   \* report positions on_alert / block returned for

mainVars == <<cur, tool_ctx, report, alerted, blocked>>
pumpVars == <<stream, emitted, pump, events_q, pump_error>>
vars     == <<config, pc, expired, mainVars, pumpVars>>

A == INSTANCE Audit WITH over <- pc \in {"drift", "returned", "raised"}

ASSUME EventAssumption ==
    /\ NoTool \notin Tool
    /\ Verdict \in [Behaviour -> A!EventClass]
    /\ Event \subseteq A!Stamped

Final  == {"drift", "returned", "raised"}
Config == [mode : {"observe", "alert", "enforce"}, max : MaxEvents,
           timed : BOOLEAN, drift : BOOLEAN, allow_drift : BOOLEAN]

-----------------------------------------------------------------------------
Init ==
    /\ config \in Config
    /\ pc = "init" /\ expired = FALSE
    /\ stream = "open" /\ emitted = << >> /\ pump = "off"
    /\ events_q = << >> /\ pump_error = FALSE
    /\ cur = << >> /\ tool_ctx = NoTool /\ report = << >>
    /\ alerted = << >> /\ blocked = << >>

(* Monitor.__init__: refuse a manifest that is not the policy's.           *)
RefuseDrift ==
    /\ pc = "init" /\ config.drift /\ ~ config.allow_drift
    /\ pc' = "drift"
    /\ UNCHANGED <<config, expired, mainVars, pumpVars>>

(* ... and enter run(), which starts the pump when there is a duration.    *)
StartRun ==
    /\ pc = "init" /\ (config.drift => config.allow_drift)
    /\ pc' = "loop"
    /\ pump' = IF config.timed THEN "on" ELSE "off"
    /\ UNCHANGED <<config, expired, mainVars, stream, emitted, events_q, pump_error>>

(* run() without a duration: the for loop over the stream.                 *)
PullEvent ==
    /\ pc = "loop" /\ ~ config.timed /\ stream = "open" /\ Len(emitted) < StreamBound
    /\ \E e \in Event : emitted' = Append(emitted, e) /\ cur' = <<e>>
    /\ pc' = "handle"
    /\ UNCHANGED <<config, expired, tool_ctx, report, alerted, blocked,
                   stream, pump, events_q, pump_error>>

PullEnd ==
    /\ pc = "loop" /\ ~ config.timed /\ stream = "open"
    /\ \/ stream' = "ended"  /\ pc' = "returned"
       \/ stream' = "failed" /\ pc' = "raised"
    /\ UNCHANGED <<config, expired, mainVars, emitted, pump, events_q, pump_error>>

(* The pump thread.  It does not know whether run() is still listening.    *)
PumpEvent ==
    /\ pump = "on" /\ Len(emitted) < StreamBound
    /\ \E e \in Event : /\ emitted'  = Append(emitted, e)
                          /\ events_q' = Append(events_q, <<e>>)
    /\ UNCHANGED <<config, pc, expired, mainVars, stream, pump, pump_error>>

(* Mutant: a failure of the adapter does not end the pump.                 *)
PumpEndRetries ==
    /\ pump = "on"
    /\ \/ stream' = "ended"  /\ pump_error' = FALSE /\ pump' = "done"
       \/ stream' = "failed" /\ pump_error' = TRUE  /\ pump' = "on"
    /\ events_q' = Append(events_q, << >>)
    /\ UNCHANGED <<config, pc, expired, mainVars, emitted>>

PumpEnd ==
    /\ pump = "on"
    /\ \/ stream' = "ended"  /\ pump_error' = FALSE
       \/ stream' = "failed" /\ pump_error' = TRUE
    /\ events_q' = Append(events_q, << >>)
    /\ pump' = "done"
    /\ UNCHANGED <<config, pc, expired, mainVars, emitted>>

Expire ==
    /\ config.timed /\ pc \notin Final \cup {"init"} /\ ~ expired
    /\ expired' = TRUE
    /\ UNCHANGED <<config, pc, mainVars, pumpVars>>

(* remaining <= 0 ends the run even when events are queued.                *)
CheckDeadline ==
    /\ pc = "loop" /\ config.timed
    /\ pc' = IF expired THEN "returned" ELSE "get"
    /\ UNCHANGED <<config, expired, mainVars, pumpVars>>

(* Mutant: the sentinel ends the run whatever the pump met.                *)
GetIgnoresError ==
    /\ pc = "get" /\ events_q # << >>
    /\ events_q' = Tail(events_q)
    /\ cur' = Head(events_q)
    /\ pc' = IF Head(events_q) # << >> THEN "handle" ELSE "returned"
    /\ UNCHANGED <<config, expired, tool_ctx, report, alerted, blocked,
                   stream, emitted, pump, pump_error>>

(* events_q.get(timeout=remaining): an item wins over the timeout.         *)
Get ==
    /\ pc = "get" /\ events_q # << >>
    /\ events_q' = Tail(events_q)
    /\ cur' = Head(events_q)
    /\ pc' = CASE Head(events_q) # << >> -> "handle"
               [] Head(events_q) = << >> /\ pump_error -> "raised"
               [] OTHER -> "returned"
    /\ UNCHANGED <<config, expired, tool_ctx, report, alerted, blocked,
                   stream, emitted, pump, pump_error>>

(* Mutant: an empty queue ends the wait only after the stream's end.       *)
GetWaitsForEnd ==
    /\ pc = "get" /\ events_q = << >> /\ expired /\ pump = "done"
    /\ pc' = "returned"
    /\ UNCHANGED <<config, expired, mainVars, pumpVars>>

GetTimeout ==
    /\ pc = "get" /\ events_q = << >> /\ expired
    /\ pc' = "returned"
    /\ UNCHANGED <<config, expired, mainVars, pumpVars>>

-----------------------------------------------------------------------------
(* handle_event                                                            *)

AfterEvent(entries) ==
    IF config.max # Unlimited /\ Len(entries) >= config.max THEN "returned" ELSE "loop"

(* Mutants: the event is stamped too early, or only for its class.         *)
EntryStampedEarly(e) == A!Classified(A!Stamp(e, tool_ctx))
EntryUnstamped(e)    == A!Classified(e)

EntryOf(e) == A!Classified(A!Stamp(e, A!track_tool_ctx(e, tool_ctx)))

Handle ==
    /\ pc = "handle"
    /\ LET entry == EntryOf(cur[1])
       IN  /\ tool_ctx' = A!track_tool_ctx(cur[1], tool_ctx)
           /\ report' = Append(report, entry)
           /\ pc' = IF entry.class = "outside_contract" /\ config.mode \in {"alert", "enforce"}
                      THEN "alert" ELSE AfterEvent(report')
    /\ cur' = << >>
    /\ UNCHANGED <<config, expired, alerted, blocked, pumpVars>>

(* Mutant: an exception of on_alert is swallowed.                          *)
AlertSwallows ==
    /\ pc = "alert"
    /\ alerted' \in {alerted, Append(alerted, Len(report))}
    /\ pc' = IF config.mode = "enforce" THEN "block" ELSE AfterEvent(report)
    /\ UNCHANGED <<config, expired, cur, tool_ctx, report, blocked, pumpVars>>

Alert ==
    /\ pc = "alert"
    /\ \/ /\ alerted' = Append(alerted, Len(report))
          /\ pc' = IF config.mode = "enforce" THEN "block" ELSE AfterEvent(report)
       \/ pc' = "raised" /\ UNCHANGED alerted
    /\ UNCHANGED <<config, expired, cur, tool_ctx, report, blocked, pumpVars>>

Block ==
    /\ pc = "block"
    /\ \/ blocked' = Append(blocked, Len(report)) /\ pc' = AfterEvent(report)
       \/ pc' = "raised" /\ UNCHANGED blocked
    /\ UNCHANGED <<config, expired, cur, tool_ctx, report, alerted, pumpVars>>

-----------------------------------------------------------------------------
Pull == PullEvent \/ PullEnd
Main == RefuseDrift \/ StartRun \/ CheckDeadline \/ Get \/ GetTimeout \/ Handle \/ Alert
Next == Main \/ Block \/ Pull \/ PumpEvent \/ PumpEnd \/ Expire

(* The caller's own steps and the clock go on; nothing makes the adapter   *)
(* yield or end.  Fairness of Block says that the adapter's block returns. *)
OwnFairness == WF_vars(Main) /\ WF_vars(Expire)

Spec          == Init /\ [][Next]_vars /\ OwnFairness /\ WF_vars(Block)
SpecSlowBlock == Init /\ [][Next]_vars /\ OwnFairness

-----------------------------------------------------------------------------
(* Properties *)

(* Types; the sentinel is the last item ever queued, put when the pump is  *)
(* done, and an event is in hand exactly while handle_event begins.        *)
TypeOK ==
    /\ config \in Config
    /\ pc \in {"init", "loop", "get", "handle", "alert", "block"} \cup Final
    /\ stream \in {"open", "ended", "failed"}
    /\ emitted \in Seq(Event)
    /\ pump \in {"off", "on", "done"}
    /\ events_q \in Seq({<<e>> : e \in Event} \cup {<< >>})
    /\ \A i \in DOMAIN events_q : events_q[i] = << >> => i = Len(events_q) /\ pump = "done"
    /\ pump_error \in BOOLEAN /\ expired \in BOOLEAN
    /\ cur \in {<<e>> : e \in Event} \cup {<< >>}
    /\ (pc = "handle") = (cur # << >>)
    /\ tool_ctx \in Tool \cup {NoTool}
    /\ report \in Seq(A!Entry)
    /\ alerted \in Seq(Nat) /\ blocked \in Seq(Nat)

Outside == {i \in DOMAIN report : report[i].class = "outside_contract"}

Increasing(s) == \A i, j \in DOMAIN s : i < j => s[i] < s[j]

(* Between two events, on_alert has returned exactly once for every        *)
(* outside_contract entry of the report, in order, in alert and enforce    *)
(* mode, and the adapter was asked to block exactly those in enforce mode; *)
(* at no moment is an event blocked that was not alerted first.            *)
EnforcementMatchesReport ==
    /\ Increasing(alerted) /\ Increasing(blocked)
    /\ ToSet(blocked) \subseteq ToSet(alerted)
    /\ pc \in {"loop", "get", "handle", "returned"} =>
          /\ ToSet(alerted) = IF config.mode = "observe" THEN {} ELSE Outside
          /\ ToSet(blocked) = IF config.mode = "enforce" THEN Outside ELSE {}

(* A run that returns has classified every event the adapter delivered and *)
(* seen its stream end, unless the deadline cut it short or the report has *)
(* exactly max_events entries, however far ahead the pump is (the check    *)
(* follows the append: max_events = 0 still takes one event).  An          *)
(* adapter failure is never returned as a report, and it is raised only    *)
(* after every event queued before it was handled.                         *)
NothingDroppedSilently ==
    /\ pc = "returned" =>
          \/ stream = "ended" /\ Len(report) = Len(emitted)
          \/ config.timed /\ expired
          \/ config.max # Unlimited /\ Len(report) = IF config.max = 0 THEN 1 ELSE config.max
    /\ pc = "raised" =>
          \/ stream = "failed" /\ Len(report) = Len(emitted)
          \/ Outside # {} /\ config.mode # "observe"

(* Auditing the events of a live report again, as `audit` does with the    *)
(* file `run --events-out` wrote, gives the same report although every     *)
(* event now carries its stamped context.                                  *)
ReauditAgrees ==
    A!classify_events([i \in DOMAIN report |-> report[i].event]) = report

(* The audit's loop, which carries the context from event to event, stamps *)
(* each event with the latest call at or before it.                        *)
LoopIsPositional ==
    A!classify_events(emitted) = A!ReportOf(emitted, Len(emitted))

(* The live report is at every step the audit of a delivered prefix, and   *)
(* nothing is recorded once the run is over.                               *)
ImplementsAudit == A!Spec

(* A run with a duration comes back, whatever the adapter's stream does.   *)
TimedRunReturns == config.timed /\ pc = "loop" ~> pc \in Final
=============================================================================
