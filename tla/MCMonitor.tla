----------------------------- MODULE MCMonitor ------------------------------
(***************************************************************************)
(* Monitor over events whose classes are decided by the rules of Contract: *)
(* one granted host, one the manifest only implies, one neither, a program *)
(* and a call marker.  The reports of a run are exported as they stand.    *)
(***************************************************************************)
EXTENDS MonitorExport

CONSTANTS t1, t2

MCLower == [l \in {"", "in", "mid", "out"} |-> l]
C == INSTANCE Contract WITH Label <- DOMAIN MCLower, Lower <- MCLower

Exact(l)   == [wild |-> "none", labels |-> <<l>>]
NetOnly(x, other) == [c \in C!CapabilityId |-> IF c = "net.http" THEN x ELSE other]
MCPolicy   == NetOnly([status |-> "inferred", values |-> {Exact("in")}],
                      [status |-> "denied", values |-> {}])
MCImplied  == C!manifest_implied_caps(NetOnly(
                  {[status |-> "inferred", values |-> {Exact("in"), Exact("mid")}]}, {}))

MCEventOf  == [call |-> [kind |-> "mcp.call"],
               in   |-> [kind |-> "net.connect", host |-> <<"in">>, ip |-> <<"">>],
               mid  |-> [kind |-> "net.connect", host |-> <<"mid">>, ip |-> <<"">>],
               out  |-> [kind |-> "net.connect", host |-> <<"out">>, ip |-> <<"">>],
               exec |-> [kind |-> "proc.spawn", argv |-> << >>, cmd |-> << >>]]
MCBehaviour == DOMAIN MCEventOf
MCVerdict   == [b \in MCBehaviour |-> C!classify_event(MCEventOf[b], MCPolicy, MCImplied)]
MCTool      == {t1, t2}
MCEvent     == [what : {"in", "mid", "exec"}, call : {NoTool}, ctx : {NoTool}] \cup
               [what : {"call"}, call : MCTool, ctx : {NoTool}] \cup
               [what : {"out"}, call : {NoTool}, ctx : {t2}]
MCKindOf    == [b \in MCBehaviour |-> MCEventOf[b].kind]
MCTargetOf  == [b \in MCBehaviour |-> IF b = "call" THEN "" ELSE b]
MCServer    == {1, 2}
MCFleets    == {<<1>>, <<1, 2>>}
=============================================================================
