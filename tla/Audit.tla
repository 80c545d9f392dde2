------------------------------- MODULE Audit --------------------------------
(***************************************************************************)
(* The offline classification of a recorded event stream (bcm/report.py,   *)
(* classify_events), and the specification of what a live monitoring run   *)
(* promises: at every moment its report is what an audit of some prefix of *)
(* the delivered events would produce, in order, and it stops growing once *)
(* the run is over.                                                        *)
(*                                                                         *)
(* An event is what it does (its behaviour, which determines its class),   *)
(* the tool an mcp.call marker names, and the tool_ctx it arrived with.    *)
(***************************************************************************)
EXTENDS Naturals, SequencesExt

CONSTANTS Behaviour,    \* the behaviours events may report
          Verdict,      \* behaviour -> class (diff.py, classify_event)
          Tool,         \* tool names
          NoTool,       \* no tool: not a call, or no context
          Event,        \* the events an adapter delivers
          StreamBound   \* bound of the model: how many it delivers

EventClass == {"within_policy", "within_manifest", "outside_contract"}
Stamped    == [what : Behaviour, call : Tool \cup {NoTool}, ctx : Tool \cup {NoTool}]
Entry      == [event : Stamped, class : EventClass]

(* The context after event e, and e with the context stamped on it.        *)
track_tool_ctx(e, current) == IF e.call # NoTool THEN e.call ELSE current

Stamp(e, current) == IF e.ctx = NoTool THEN [e EXCEPT !.ctx = current] ELSE e

Classified(e) == [event |-> e, class |-> Verdict[e.what]]

(* Mutant: the event is stamped before its own call is tracked.            *)
AuditStepLate(acc, e) ==
    [ctx    |-> track_tool_ctx(e, acc.ctx),
     report |-> Append(acc.report, Classified(Stamp(e, acc.ctx)))]

AuditStep(acc, e) ==
    LET now == track_tool_ctx(e, acc.ctx) IN
    [ctx |-> now, report |-> Append(acc.report, Classified(Stamp(e, now)))]

(* The loop, position by position from the front.                          *)
classify_events(s) ==
    LET loop[k \in 0..Len(s)] == IF k = 0 THEN [ctx |-> NoTool, report |-> << >>]
                                          ELSE AuditStep(loop[k - 1], s[k])
    IN  loop[Len(s)].report

(* The same report position by position: the context of an event is the    *)
(* tool of the latest call at or before it.                                *)
ContextAt(s, i) ==
    LET calls == {j \in 1..i : s[j].call # NoTool} IN
    IF calls = {} THEN NoTool ELSE s[CHOOSE j \in calls : \A k \in calls : k <= j].call

EntryAt(s, i) == Classified(Stamp(s[i], ContextAt(s, i)))

ReportOf(s, n) == [i \in 1..n |-> EntryAt(s, i)]

-----------------------------------------------------------------------------
VARIABLES emitted,   \* the events delivered so far
          report,    \* the entries of the report
          over       \* the run has ended

vars == <<emitted, report, over>>

Init == emitted = << >> /\ report = << >> /\ over = FALSE

Deliver ==
    /\ Len(emitted) < StreamBound
    /\ \E e \in Event : emitted' = Append(emitted, e)
    /\ UNCHANGED <<report, over>>

Record ==
    /\ ~ over
    /\ Len(report) < Len(emitted)
    /\ report' = ReportOf(emitted, Len(report) + 1)
    /\ over' \in BOOLEAN          \* the entry may be the last one wanted
    /\ UNCHANGED emitted

Finish ==
    /\ ~ over /\ over' = TRUE
    /\ UNCHANGED <<emitted, report>>

Next == Deliver \/ Record \/ Finish
Spec == Init /\ [][Next]_vars

=============================================================================
