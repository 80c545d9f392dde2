---------------------------- MODULE MCEgressProxy ---------------------------
(***************************************************************************)
(* EgressProxy with the plan the rules of Contract derive from a policy    *)
(* that grants net.http on one host pattern.                               *)
(***************************************************************************)
EXTENDS EgressProxy

MCLower == [l \in {"", "api", "evil", "x"} |-> l]
C == INSTANCE Contract WITH Label <- DOMAIN MCLower, Lower <- MCLower

MCNoHost == <<"">>
MCHost   == {<<"">>, <<"api", "x">>, <<"api", "", "x">>, <<"evil">>}
MCUnencodable == {h \in MCHost : Len(h) > 1 /\ \E i \in DOMAIN h : h[i] = ""}
MCPlan   == C!egress_plan([c \in C!CapabilityId |->
              [status |-> "inferred",
               values |-> {[wild |-> "suffix", labels |-> <<"x">>]}]])
MCSanctioned == {h \in MCHost : C!allowed(MCPlan, h)}
MCOpen       == {h \in MCHost : C!allowed([mode |-> "open", hosts |-> {}], h)}
=============================================================================
