--------------------------- MODULE ContractProofs ---------------------------
(***************************************************************************)
(* What the decision rules guarantee for every set of cases, whatever      *)
(* their labels, values, policies, tools, signals and suggestions: the     *)
(* properties of Decisions that MCContract checks over bounded inputs.     *)
(***************************************************************************)
EXTENDS Decisions, Recursion, FunctionTheorems, FiniteSetTheorems, SequenceTheorems, TLAPS

-----------------------------------------------------------------------------
(* "*" matches every host (host_matches, first branch).                    *)
LEMMA AnyHostMatches ==
    ASSUME NEW host, NEW values, AnyHost \in values
    PROVE  host_matches(host, values)
BY DEF host_matches, AnyHost

(* The proxy lets a host out exactly when the policy grants net.http on    *)
(* it: EgressProxy.allowed under egress_plan and the first test of         *)
(* classify_event are the same predicate.                                  *)
THEOREM PlanIsGrant ==
    ASSUME NEW pol, NEW host
    PROVE  allowed(egress_plan(pol), host) <=> PolicyGrants(pol, "net.http", host)
<1> DEFINE values == pol["net.http"].values
<1>1. CASE ~ granted(pol, "net.http") \/ values = {}
  BY <1>1 DEF allowed, egress_plan, PolicyGrants
<1>2. CASE granted(pol, "net.http") /\ values # {} /\ AnyHost \in values
  <2>1. host_matches(host, values)
    BY <1>2, AnyHostMatches
  <2> QED
    BY <1>2, <2>1 DEF allowed, egress_plan, PolicyGrants, value_matches
<1>3. CASE granted(pol, "net.http") /\ values # {} /\ AnyHost \notin values
  BY <1>3 DEF allowed, egress_plan, PolicyGrants, value_matches
<1> QED
  BY <1>1, <1>2, <1>3

(* Enforcement and monitoring agree: the event the proxy emits for a host  *)
(* is within the policy exactly when the proxy lets that host out.         *)
THEOREM ProxyAgrees ==
    ASSUME NEW pol, NEW implied, NEW host
    PROVE  allowed(egress_plan(pol), host) <=>
             classify_event([kind |-> "net.connect", host |-> host, ip |-> <<Empty>>],
                            pol, implied) = "within_policy"
<1> DEFINE e == [kind |-> "net.connect", host |-> host, ip |-> <<Empty>>]
<1>1. event_capability(e) = [cap |-> "net.http", value |-> host]
  BY DEF event_capability
<1>2. classify_event(e, pol, implied) = "within_policy"
        <=> PolicyGrants(pol, "net.http", host)
  BY <1>1 DEF classify_event, NoCap
<1> QED
  BY <1>2, PlanIsGrant
-----------------------------------------------------------------------------
(* What infer_policy makes of a class without an override: exec is never   *)
(* inferred, and a class is only inferred from signals of the rules.       *)
LEMMA InferredClass ==
    ASSUME NEW raised, NEW hints, NEW cap \in CapabilityId,
           granted(infer_policy(raised, hints, NoOverrides), cap)
    PROVE  /\ cap # "proc.exec"
           /\ raised[cap] # {}
           /\ \A s \in raised[cap] : s.status = "inferred"
           /\ infer_policy(raised, hints, NoOverrides)[cap].values
                = merge_class_signals(cap, raised[cap]).values
<1> DEFINE extra  == IF raised[cap] = {} THEN {clamp_llm(v) : v \in hints[cap]} ELSE {}
           sigs   == raised[cap] \cup extra
           merged == merge_class_signals(cap, sigs)
           final  == IF cap = "proc.exec" /\ merged.status = "inferred"
                       THEN [merged EXCEPT !.status = "needs_review"] ELSE merged
<1>1. infer_policy(raised, hints, NoOverrides)[cap] = final
  BY DEF infer_policy, NoOverrides
<1>2. merged = [status |-> merged.status, values |-> merged.values]
  BY DEF merge_class_signals, Denied
<1>3. cap # "proc.exec" /\ merged.status = "inferred" /\ final = merged
  BY <1>1, <1>2 DEF granted
<1>4. sigs # {} /\ \A s \in sigs : s.status = "inferred"
  BY <1>3 DEF merge_class_signals, Denied
<1>5. extra = {}
  <2>1. \A s \in extra : s.status = "needs_review"
    BY DEF clamp_llm
  <2> QED
    BY <1>4, <2>1
<1>6. sigs = raised[cap]
  BY <1>5
<1> QED
  BY <1>1, <1>3, <1>4, <1>6

(* What the implied capabilities say of one class, and when they imply a   *)
(* value of it.                                                            *)
LEMMA ImpliedClass ==
    ASSUME NEW raised, NEW cap \in CapabilityId, NEW value
    PROVE  ManifestImplies(manifest_implied_caps(raised), cap, value)
             <=> /\ raised[cap] # {}
                 /\ \/ ImpliedValues(cap, raised[cap]) = {}
                    \/ StarOf(cap) \in ImpliedValues(cap, raised[cap])
                    \/ value_matches(cap, value, ImpliedValues(cap, raised[cap]))
<1>1. /\ manifest_implied_caps(raised)[cap].present = (raised[cap] # {})
      /\ manifest_implied_caps(raised)[cap].values = ImpliedValues(cap, raised[cap])
  BY Zenon DEF manifest_implied_caps
<1> QED
  BY <1>1, Zenon DEF ManifestImplies

(* What inference grants, the manifest implies: the two merges of the same *)
(* signals (merge_class_signals, manifest_implied_caps) agree on inferred  *)
(* classes.                                                                *)
THEOREM InferredIsImplied ==
    ASSUME NEW raised, NEW hints, NEW cap \in CapabilityId, NEW value,
           PolicyGrants(infer_policy(raised, hints, NoOverrides), cap, value)
    PROVE  ManifestImplies(manifest_implied_caps(raised), cap, value)
<1> DEFINE sigs    == raised[cap]
           unknown == \E s \in sigs : ScopeUnknown(cap, s)
           values  == infer_policy(raised, hints, NoOverrides)[cap].values
<1>1. granted(infer_policy(raised, hints, NoOverrides), cap)
  BY DEF PolicyGrants
<1>2. /\ cap # "proc.exec" /\ sigs # {}
      /\ values = merge_class_signals(cap, sigs).values
  BY <1>1, InferredClass
<1>3. value_matches(cap, value, values)
  BY <1>2 DEF PolicyGrants
<1>4. values = Concrete(cap, sigs) \cup (IF cap = "net.http" /\ unknown THEN {AnyHost} ELSE {})
  BY <1>2 DEF merge_class_signals
<1>5. CASE unknown /\ cap # "net.http"
  BY <1>2, <1>5, ImpliedClass DEF ImpliedValues
<1>6. CASE ~ (unknown /\ cap # "net.http")
  <2>1. ImpliedValues(cap, sigs) = values
    BY <1>4, <1>6 DEF ImpliedValues
  <2> QED
    BY <1>2, <1>3, <2>1, ImpliedClass
<1> QED
  BY <1>5, <1>6

(* The LLM changes no grant: with and without its suggestions the same     *)
(* values of the same classes are granted (infer_policy, _clamp_llm).      *)
THEOREM LlmGrantsNothing ==
    ASSUME NEW raised, NEW hints, NEW other, NEW cap \in CapabilityId, NEW value,
           PolicyGrants(infer_policy(raised, hints, NoOverrides), cap, value)
    PROVE  PolicyGrants(infer_policy(raised, other, NoOverrides), cap, value)
<1> DEFINE merged == merge_class_signals(cap, raised[cap])
<1>1. granted(infer_policy(raised, hints, NoOverrides), cap)
  BY DEF PolicyGrants
<1>2. /\ cap # "proc.exec" /\ raised[cap] # {}
      /\ \A s \in raised[cap] : s.status = "inferred"
      /\ infer_policy(raised, hints, NoOverrides)[cap].values = merged.values
  BY <1>1, InferredClass
<1>3. infer_policy(raised, other, NoOverrides)[cap] = merge_class_signals(cap, raised[cap] \cup {})
  BY <1>2 DEF infer_policy, NoOverrides
<1>4. merge_class_signals(cap, raised[cap] \cup {}) = merged
  <2>1. raised[cap] \cup {} = raised[cap]
    OBVIOUS
  <2> QED
    BY <2>1
<1>5. merged.status = "inferred"
  BY <1>2 DEF merge_class_signals
<1> QED
  BY <1>2, <1>3, <1>4, <1>5 DEF PolicyGrants, granted

-----------------------------------------------------------------------------
(* More values match more (_value_matches).                                *)
LEMMA MatchingIsMonotone ==
    ASSUME NEW cap, NEW value, NEW V, NEW W, V \subseteq W, value_matches(cap, value, V)
    PROVE  value_matches(cap, value, W)
<1>1. CASE cap = "net.http"
  BY <1>1 DEF value_matches, host_matches
<1>2. CASE cap \in {"fs.read", "fs.write"}
  BY <1>2 DEF value_matches, path_matches
<1>3. CASE cap \notin {"net.http", "fs.read", "fs.write"}
  BY <1>3 DEF value_matches
<1> QED
  BY <1>1, <1>2, <1>3

(* A manifest that only adds signals implies whatever it implied before,   *)
(* although collapsing a class of unknown scope replaces the values that   *)
(* were collected for it (manifest_implied_caps).                          *)
THEOREM ImpliedOnlyGrows ==
    ASSUME NEW before, NEW after, \A c \in CapabilityId : before[c] \subseteq after[c],
           NEW cap \in CapabilityId, NEW value,
           ManifestImplies(manifest_implied_caps(before), cap, value)
    PROVE  ManifestImplies(manifest_implied_caps(after), cap, value)
<1> DEFINE old == before[cap]
           new == after[cap]
           Unknown(sigs) == \E s \in sigs : ScopeUnknown(cap, s)
<1>1. old \subseteq new /\ old # {} /\ new # {}
  BY ImpliedClass
<1>2. \/ ImpliedValues(cap, old) = {}
      \/ StarOf(cap) \in ImpliedValues(cap, old)
      \/ value_matches(cap, value, ImpliedValues(cap, old))
  BY ImpliedClass
<1>3. Concrete(cap, old) \subseteq Concrete(cap, new)
  BY <1>1 DEF Concrete
<1>4. CASE Unknown(new) /\ cap # "net.http"
  BY <1>1, <1>4, ImpliedClass DEF ImpliedValues
<1>5. CASE Unknown(new) /\ cap = "net.http"
  <2>1. StarOf(cap) \in ImpliedValues(cap, new)
    BY <1>5 DEF ImpliedValues, StarOf
  <2> QED
    BY <1>1, <2>1, ImpliedClass
<1>6. CASE ~ Unknown(new)
  <2>1. ~ Unknown(old)
    BY <1>1, <1>6
  <2>2. /\ ImpliedValues(cap, old) = Concrete(cap, old)
        /\ ImpliedValues(cap, new) = Concrete(cap, new)
    BY <1>6, <2>1 DEF ImpliedValues
  <2>3. Concrete(cap, old) # {} /\ StarOf(cap) \notin Concrete(cap, old)
    <3>1. PICK s \in old : s.values # {} /\ StarOf(cap) \notin s.values
      BY <1>1, <2>1 DEF ScopeUnknown
    <3>2. PICK v \in s.values : v # StarOf(cap)
      BY <3>1
    <3>3. v \in Concrete(cap, old)
      BY <3>1, <3>2 DEF Concrete
    <3> QED
      BY <3>3 DEF Concrete
  <2>4. value_matches(cap, value, Concrete(cap, old))
    BY <1>2, <2>2, <2>3
  <2>5. value_matches(cap, value, Concrete(cap, new))
    BY <1>3, <2>4, MatchingIsMonotone
  <2> QED
    BY <1>1, <2>2, <2>5, ImpliedClass
<1> QED
  BY <1>4, <1>5, <1>6

-----------------------------------------------------------------------------
(* The states of Decisions: the signals are those of the tools, and the    *)
(* verdict is the one of the last manifest.                                *)

IInv ==
    /\ event \in Event /\ IsPolicy(policy) /\ tools \subseteq ToolType
    /\ DOMAIN signals = CapabilityId
    /\ tools # {} => signals = manifest_signals(tools)
    /\ verdict # "none" => verdict = Verdict(signals)

LEMMA InitInv == Init => IInv
<1> SUFFICES ASSUME Init PROVE IInv
  OBVIOUS
<1>1. PICK c \in Case :
          /\ event = c.event /\ policy = c.policy /\ tools = c.tools /\ llm = c.llm
          /\ signals = IF c.tools = {} THEN c.given ELSE manifest_signals(c.tools)
  BY DEF Init
<1> QED
  BY <1>1, CaseAssumption DEF Init, IInv, manifest_signals

LEMMA NextInv == IInv /\ [Next]_vars => IInv'
<1> SUFFICES ASSUME IInv, [Next]_vars PROVE IInv'
  OBVIOUS
<1>1. CASE Classify
  BY <1>1 DEF Classify, IInv, Verdict
<1>2. CASE Grow
  BY <1>2 DEF Grow, IInv, Verdict
<1>3. CASE GrowTool
  <2>1. tools' \subseteq ToolType
    BY <1>3, CaseAssumption DEF GrowTool, IInv
  <2> QED
    BY <1>3, <2>1 DEF GrowTool, IInv, Verdict, manifest_signals
<1>4. CASE UNCHANGED vars
  BY <1>4 DEF vars, IInv, Verdict
<1> QED
  BY <1>1, <1>2, <1>3, <1>4 DEF Next

LEMMA Invariance == Spec => []IInv
  BY InitInv, NextInv, PTL DEF Spec

(* The capability of an event: none, or one of the five classes.           *)
LEMMA CapOfEvent ==
    ASSUME NEW e
    PROVE  event_capability(e).cap \in CapabilityId \cup {NoCap}
BY DEF event_capability, CapabilityId

(* The proxy lets a host out exactly when the monitor files the event the  *)
(* proxy emits for it under within_policy.  (EgressProxy.allowed,          *)
(* classify_event)                                                         *)
THEOREM EnforcementAgrees == Spec => []ProxyAgreesWithMonitor
<1>1. IInv => ProxyAgreesWithMonitor
  <2> SUFFICES ASSUME IInv, event.kind = "net.connect"
               PROVE  LET host == LowerHost(event_capability(event).value) IN
                        allowed(egress_plan(policy), host) <=>
                        classify_event([event EXCEPT !.host = host, !.ip = <<Empty>>], policy,
                                       manifest_implied_caps(signals)) = "within_policy"
    BY DEF ProxyAgreesWithMonitor
  <2> DEFINE host == LowerHost(event_capability(event).value)
  <2>1. event \in [kind : {"net.connect"}, host : HostName, ip : HostName]
    BY DEF IInv, Event
  <2> HIDE DEF host
  <2>2. [event EXCEPT !.host = host, !.ip = <<Empty>>]
          = [kind |-> "net.connect", host |-> host, ip |-> <<Empty>>]
    <3> DEFINE e == [event EXCEPT !.host = host, !.ip = <<Empty>>]
    <3>1. e \in [kind : {"net.connect"}, host : {host}, ip : {<<Empty>>}]
      BY <2>1
    <3> HIDE DEF e
    <3>2. e = [kind |-> "net.connect", host |-> host, ip |-> <<Empty>>]
      BY <3>1
    <3> QED
      BY <3>2 DEF e
  <2> QED
    BY <2>2, ProxyAgrees DEF host
<1> QED
  BY <1>1, Invariance, PTL

(* Whatever a freshly inferred policy grants, the manifest implies.        *)
(* (merge_class_signals, manifest_implied_caps)                            *)
THEOREM GrantsImplied == Spec => []GrantsAreImplied
<1>1. GrantsAreImplied
  BY CapOfEvent, InferredIsImplied DEF GrantsAreImplied
<1> QED
  BY <1>1, PTL

-----------------------------------------------------------------------------
(* A new manifest raises every signal of the old one.                      *)

LEMMA MoreToolsMoreSignals ==
    ASSUME NEW T, NEW U, T \subseteq U, NEW cap \in CapabilityId
    PROVE  manifest_signals(T)[cap] \subseteq manifest_signals(U)[cap]
<1>1. \A V : manifest_signals(V)[cap] = UNION {classify_tool(t)[cap] : t \in V}
  BY DEF manifest_signals
<1>2. UNION {classify_tool(t)[cap] : t \in T} \subseteq UNION {classify_tool(t)[cap] : t \in U}
  OBVIOUS
<1> QED
  BY <1>1, <1>2

LEMMA SignalsGrow ==
    IInv /\ [Next]_vars => \A cap \in CapabilityId : signals[cap] \subseteq signals'[cap]
<1> SUFFICES ASSUME IInv, [Next]_vars, NEW cap \in CapabilityId
             PROVE  signals[cap] \subseteq signals'[cap]
  OBVIOUS
<1>1. CASE Classify
  BY <1>1 DEF Classify
<1>2. CASE Grow
  BY <1>2 DEF Grow, IInv
<1>3. CASE GrowTool
  <2>1. signals = manifest_signals(tools) /\ signals' = manifest_signals(tools')
    BY <1>3 DEF GrowTool, IInv
  <2>2. tools \subseteq tools'
    BY <1>3 DEF GrowTool
  <2> QED
    BY <2>1, <2>2, MoreToolsMoreSignals
<1>4. CASE UNCHANGED vars
  BY <1>4 DEF vars
<1> QED
  BY <1>1, <1>2, <1>3, <1>4 DEF Next

(* More signals never make a violation of what was none.                   *)
LEMMA VerdictIsMonotone ==
    ASSUME NEW e, NEW pol, NEW before, NEW after,
           \A c \in CapabilityId : before[c] \subseteq after[c],
           classify_event(e, pol, manifest_implied_caps(after)) = "outside_contract"
    PROVE  classify_event(e, pol, manifest_implied_caps(before)) = "outside_contract"
<1> DEFINE m == event_capability(e)
<1>1. m.cap \in CapabilityId \cup {NoCap}
  BY CapOfEvent
<1>2. /\ m.cap # NoCap
      /\ ~ PolicyGrants(pol, m.cap, m.value)
      /\ ~ ManifestImplies(manifest_implied_caps(after), m.cap, m.value)
  BY DEF classify_event
<1>3. ~ ManifestImplies(manifest_implied_caps(before), m.cap, m.value)
  BY <1>1, <1>2, ImpliedOnlyGrows
<1> QED
  BY <1>2, <1>3 DEF classify_event

(* A republished manifest that only adds tools or signals never turns an   *)
(* event into a violation.  (manifest_implied_caps, classify_event)        *)
THEOREM GrowthIsHarmless == Spec => GrowthNeverCreatesViolations
<1>1. IInv /\ IInv' /\ [Next]_vars =>
         [verdict' = "outside_contract" => verdict \in {"none", "outside_contract"}]_vars
  <2> SUFFICES ASSUME IInv, IInv', Next, verdict' = "outside_contract", verdict # "none"
               PROVE  verdict = "outside_contract"
    OBVIOUS
  <2>1. verdict = classify_event(event, policy, manifest_implied_caps(signals))
    BY DEF IInv, Verdict
  <2>2. verdict' = classify_event(event, policy, manifest_implied_caps(signals'))
    BY DEF IInv, Verdict, Next, Classify, Grow, GrowTool
  <2> QED
    BY <2>1, <2>2, SignalsGrow, VerdictIsMonotone
<1> QED
  BY <1>1, Invariance, PTL DEF Spec, GrowthNeverCreatesViolations

-----------------------------------------------------------------------------
(* A path is granted only from a tool about which the network rule has     *)
(* nothing to say, but for a parameter that is a URI by its format alone.  *)
(* (_net_context, _classify_net)                                           *)
LEMMA NoContextNoSignal ==
    ASSUME NEW t \in ToolType, ~ net_context(t)
    PROVE  classify_net([t EXCEPT !.params = {[p EXCEPT !.uri = FALSE] : p \in @}]) = {}
<1> DEFINE u == [t EXCEPT !.params = {[p EXCEPT !.uri = FALSE] : p \in t.params}]
<1>1. /\ u.urls = t.urls /\ u.name = t.name /\ u.words = t.words /\ u.literals = t.literals
      /\ u.params = {[p EXCEPT !.uri = FALSE] : p \in t.params}
  BY DEF ToolType
<1>2. t.urls = {} /\ ~ confirms_net(t) /\ candidates(t) = {} /\ \A p \in t.params : ~ p.net
  BY DEF net_context
<1> HIDE DEF u
<1>3. ~ confirms_net(u)
  BY <1>1, <1>2 DEF confirms_net
<1>4. candidates(u) = {}
  BY <1>1, <1>2 DEF candidates
<1>5. url_hosts(u) = {}
  BY <1>1, <1>2 DEF url_hosts
<1>6. ~ takes_endpoint(u)
  <2>1. ASSUME NEW p \in t.params
        PROVE  ~ [p EXCEPT !.uri = FALSE].net /\ ~ [p EXCEPT !.uri = FALSE].uri
    <3>1. p \in [net : BOOLEAN, uri : BOOLEAN, fs : BOOLEAN]
      BY DEF ToolType
    <3> QED
      BY <1>2, <3>1
  <2> QED
    BY <1>1, <2>1 DEF takes_endpoint
<1>7. known_hosts(u) \cup review_hosts(u) = {}
  BY <1>4, <1>5 DEF known_hosts, review_hosts
<1>8. classify_net(u) = {}
  BY <1>3, <1>6, <1>7 DEF classify_net
<1> QED
  BY <1>8 DEF u

(* A path is granted only from a tool the network rule has nothing to say  *)
(* about.  (_net_context, _classify_fs, _classify_net)                     *)
THEOREM RoutesStayRoutes == Spec => []RoutesAreNoPaths
<1>1. IInv => RoutesAreNoPaths
  <2> SUFFICES ASSUME IInv, NEW t \in tools, NEW cap \in {"fs.read", "fs.write"},
                      NEW s \in classify_fs(t, cap), s.status = "inferred"
               PROVE  classify_net([t EXCEPT !.params = {[p EXCEPT !.uri = FALSE] : p \in @}]) = {}
    BY DEF RoutesAreNoPaths
  <2>1. ~ net_context(t)
    BY DEF classify_fs
  <2>2. t \in ToolType
    BY DEF IInv
  <2> QED
    BY <2>1, <2>2, NoContextNoSignal
<1> QED
  BY <1>1, Invariance, PTL

-----------------------------------------------------------------------------
(* What a signal of each rule says of its tool.                            *)

LEMMA SignalsOf ==
    ASSUME NEW T, NEW cap \in CapabilityId
    PROVE  manifest_signals(T)[cap] = UNION {classify_tool(t)[cap] : t \in T}
BY DEF manifest_signals

(* The hosts written in a tool: in its URLs, and as dotted names.          *)
Written(t) == url_hosts(t) \cup {[wild |-> "none", labels |-> h] : h \in candidates(t)}

LEMMA WrittenIsSeen ==
    ASSUME NEW t
    PROVE  Written(t) = known_hosts(t) \cup review_hosts(t)
BY DEF Written, known_hosts, review_hosts

(* A tool whose every network signal is sure of its scope.                 *)
LEMMA SureNetTool ==
    ASSUME NEW t, \A s \in classify_net(t) : s.status = "inferred"
    PROVE  /\ ~ takes_endpoint(t)
           /\ review_hosts(t) = {}
           /\ classify_net(t) = {} => Written(t) = {}
           /\ \A s \in classify_net(t) : s.values = Written(t) /\ s.values # {}
<1> DEFINE values == known_hosts(t) \cup review_hosts(t)
           sure   == [status |-> "inferred", values |-> known_hosts(t)]
           unsure == [status |-> "needs_review", values |-> values \cup
                        (IF takes_endpoint(t) \/ values = {} THEN {AnyHost} ELSE {})]
           None   == values = {} /\ ~ takes_endpoint(t) /\ ~ confirms_net(t)
           Sure   == known_hosts(t) # {} /\ review_hosts(t) = {} /\ ~ takes_endpoint(t)
<1>1. /\ None => classify_net(t) = {}
      /\ ~ None /\ Sure => classify_net(t) = {sure}
      /\ ~ None /\ ~ Sure => classify_net(t) = {unsure}
  BY DEF classify_net
<1>2. /\ unsure.status = "needs_review" /\ sure.values = known_hosts(t)
      /\ Written(t) = values /\ (Sure => values = known_hosts(t))
  BY WrittenIsSeen
<1> HIDE DEF sure, unsure
<1>3. None \/ Sure
  BY <1>1, <1>2
<1>4. CASE None
  BY <1>1, <1>2, <1>4
<1>5. CASE ~ None /\ Sure
  <2>1. classify_net(t) = {sure}
    BY <1>1, <1>5
  <2> QED
    BY <1>2, <1>5, <2>1
<1> QED
  BY <1>3, <1>4, <1>5

(* A dotted name is a file, has a known last label or is also a URL's host. *)
LEMMA NamesAreConfirmed ==
    ASSUME NEW t, review_hosts(t) = {}, NEW l \in t.literals
    PROVE  \/ Last(LowerHost(l)) \in FileExtension \cup KnownTld
           \/ [wild |-> "none", labels |-> LowerHost(l)] \in url_hosts(t)
<1> DEFINE h == LowerHost(l)
           p == [wild |-> "none", labels |-> h]
<1>1. SUFFICES ASSUME Last(h) \notin FileExtension
               PROVE  Last(h) \in KnownTld \/ p \in url_hosts(t)
  OBVIOUS
<1>2. h \in candidates(t)
  BY <1>1 DEF candidates
<1>3. p \in known_hosts(t)
  BY <1>2 DEF review_hosts
<1>4. CASE p \in url_hosts(t)
  BY <1>4
<1>5. CASE p \notin url_hosts(t)
  <2>1. PICK c \in candidates(t) : Last(c) \in KnownTld /\ p = [wild |-> "none", labels |-> c]
    BY <1>3, <1>5 DEF known_hosts
  <2>2. c = h
    BY <2>1
  <2> QED
    BY <2>1, <2>2
<1> QED
  BY <1>4, <1>5

(* Merging keeps every value of a class that is granted.                   *)
LEMMA MergedValues ==
    ASSUME NEW cap, NEW sigs, sigs # {}, \A s \in sigs : s.values # {},
           cap # "net.http" => \A s \in sigs : StarOf(cap) \notin s.values
    PROVE  merge_class_signals(cap, sigs).values = UNION {s.values : s \in sigs}
<1> DEFINE all  == UNION {s.values : s \in sigs}
           star == IF cap = "net.http" /\ \E s \in sigs : ScopeUnknown(cap, s)
                     THEN {AnyHost} ELSE {}
<1>1. merge_class_signals(cap, sigs).values = (all \ {StarOf(cap)}) \cup star
  BY DEF merge_class_signals, Concrete
<1>2. CASE cap = "net.http"
  <2>1. StarOf(cap) = AnyHost
    BY <1>2 DEF StarOf
  <2>2. AnyHost \in all <=> \E s \in sigs : ScopeUnknown(cap, s)
    BY <2>1 DEF ScopeUnknown
  <2> QED
    BY <1>1, <1>2, <2>1, <2>2
<1>3. CASE cap # "net.http"
  <2>1. StarOf(cap) \notin all
    BY <1>3
  <2> QED
    BY <1>1, <1>3, <2>1
<1> QED
  BY <1>2, <1>3

(* The network class is granted only for the hosts that are written.       *)
LEMMA NetGrantIsLiteral ==
    ASSUME NEW T, NEW hints, NEW sigs, sigs = manifest_signals(T),
           granted(infer_policy(sigs, hints, NoOverrides), "net.http")
    PROVE  /\ \A t \in T : ~ takes_endpoint(t) /\ review_hosts(t) = {}
           /\ infer_policy(sigs, hints, NoOverrides)["net.http"].values # {}
           /\ infer_policy(sigs, hints, NoOverrides)["net.http"].values
                = UNION {Written(t) : t \in T}
<1> DEFINE net    == sigs["net.http"]
           values == infer_policy(sigs, hints, NoOverrides)["net.http"].values
<1>1. "net.http" \in CapabilityId
  BY DEF CapabilityId
<1>2. /\ net # {} /\ \A s \in net : s.status = "inferred"
      /\ values = merge_class_signals("net.http", net).values
  BY <1>1, InferredClass
<1>3. net = UNION {classify_net(t) : t \in T}
  <2>1. \A t \in T : classify_tool(t)["net.http"] = classify_net(t)
    BY <1>1 DEF classify_tool
  <2> QED
    BY <1>1, <2>1, SignalsOf
<1>4. \A t \in T : /\ ~ takes_endpoint(t) /\ review_hosts(t) = {}
                   /\ classify_net(t) = {} => Written(t) = {}
                   /\ \A s \in classify_net(t) : s.values = Written(t) /\ s.values # {}
  BY <1>2, <1>3, SureNetTool
<1>5. \A s \in net : s.values # {}
  BY <1>3, <1>4
<1>6. values = UNION {s.values : s \in net}
  BY <1>2, <1>5, MergedValues
<1>7. values # {}
  BY <1>2, <1>5, <1>6
<1>8. UNION {s.values : s \in net} = UNION {Written(t) : t \in T}
  <2>1. ASSUME NEW v, \E s \in net : v \in s.values
        PROVE  \E t \in T : v \in Written(t)
    BY <1>3, <1>4, <2>1
  <2>2. ASSUME NEW v, NEW t \in T, v \in Written(t)
        PROVE  \E s \in net : v \in s.values
    <3>1. PICK s : s \in classify_net(t)
      BY <1>4, <2>2
    <3> QED
      BY <1>3, <1>4, <2>2, <3>1
  <2> QED
    BY <2>1, <2>2
<1> QED
  BY <1>4, <1>6, <1>7, <1>8

(* A path of a description is never taken for the wildcard.                *)
LEMMA LiteralsAreNoStars ==
    ASSUME NEW t \in ToolType, NEW cap \in {"fs.read", "fs.write"}
    PROVE  StarOf(cap) \notin path_literals(t)
<1>1. StarOf(cap) = [slashes |-> 0, comps |-> <<"*">>]
  BY DEF StarOf
<1>2. ASSUME NEW p \in path_literals(t)
      PROVE  p.slashes > 0 \/ Len(p.comps) > 1
  BY DEF path_literals, ToolType, Literal
<1>3. Len(<<"*">>) = 1
  OBVIOUS
<1>4. ~ (StarOf(cap).slashes > 0 \/ Len(StarOf(cap).comps) > 1)
  BY <1>1, <1>3
<1> QED
  BY <1>2, <1>4

(* A storage class is granted only for the paths that are written.         *)
LEMMA FsGrantIsLiteral ==
    ASSUME NEW T, T \subseteq ToolType, NEW hints, NEW sigs, sigs = manifest_signals(T),
           NEW cap \in {"fs.read", "fs.write"},
           granted(infer_policy(sigs, hints, NoOverrides), cap)
    PROVE  LET raise == {t \in T : classify_fs(t, cap) # {}} IN
           /\ \A t \in raise : path_literals(t) # {} /\ cap \in directions(t)
           /\ infer_policy(sigs, hints, NoOverrides)[cap].values
                = UNION {path_literals(t) : t \in raise}
<1> DEFINE raise  == {t \in T : classify_fs(t, cap) # {}}
           fs     == sigs[cap]
           values == infer_policy(sigs, hints, NoOverrides)[cap].values
<1>1. cap \in CapabilityId /\ cap # "net.http"
  BY DEF CapabilityId
<1>2. /\ fs # {} /\ \A s \in fs : s.status = "inferred"
      /\ values = merge_class_signals(cap, fs).values
  BY <1>1, InferredClass
<1>3. fs = UNION {classify_fs(t, cap) : t \in T}
  <2>1. \A t \in T : classify_tool(t)[cap] = classify_fs(t, cap)
    BY <1>1 DEF classify_tool
  <2> QED
    BY <1>1, <2>1, SignalsOf
<1>4. ASSUME NEW t \in T, NEW s \in classify_fs(t, cap)
      PROVE  s.values = path_literals(t) /\ s.values # {} /\ cap \in directions(t)
  <2>1. s.status = "inferred"
    BY <1>2, <1>3
  <2> QED
    BY <2>1 DEF classify_fs
<1>5. \A s \in fs : s.values # {} /\ StarOf(cap) \notin s.values
  BY <1>3, <1>4, LiteralsAreNoStars
<1>6. values = UNION {s.values : s \in fs}
  BY <1>1, <1>2, <1>5, MergedValues
<1>7. UNION {s.values : s \in fs} = UNION {path_literals(t) : t \in raise}
  <2>1. ASSUME NEW v, \E s \in fs : v \in s.values
        PROVE  \E t \in raise : v \in path_literals(t)
    BY <1>3, <1>4, <2>1
  <2>2. ASSUME NEW v, NEW t \in raise, v \in path_literals(t)
        PROVE  \E s \in fs : v \in s.values
    <3>1. PICK s : s \in classify_fs(t, cap)
      OBVIOUS
    <3> QED
      BY <1>3, <1>4, <2>2, <3>1
  <2> QED
    BY <2>1, <2>2
<1> QED
  BY <1>4, <1>6, <1>7

(* No rule is ever sure of an environment variable.                        *)
LEMMA EnvIsNeverGranted ==
    ASSUME NEW T, NEW hints
    PROVE  ~ granted(infer_policy(manifest_signals(T), hints, NoOverrides), "env")
<1> DEFINE sigs == manifest_signals(T)
<1>1. SUFFICES ASSUME granted(infer_policy(sigs, hints, NoOverrides), "env")
               PROVE  FALSE
  OBVIOUS
<1>2. "env" \in CapabilityId
  BY DEF CapabilityId
<1>3. sigs["env"] # {} /\ \A s \in sigs["env"] : s.status = "inferred"
  BY <1>1, <1>2, InferredClass
<1>4. \A t : classify_tool(t)["env"] = classify_env(t)
  BY <1>2 DEF classify_tool
<1>5. \A s \in sigs["env"] : \E t \in T : s \in classify_env(t)
  BY <1>2, <1>4, SignalsOf
<1>6. \A t : \A s \in classify_env(t) : s.status = "needs_review"
  BY DEF classify_env
<1> QED
  BY <1>3, <1>5, <1>6

(* What is granted was written in the tools, whatever an LLM suggests.     *)
(* (classify_tool, merge_class_signals, infer_policy)                      *)
THEOREM GrantsLiteral == Spec => []GrantsAreLiteral
<1>1. IInv => GrantsAreLiteral
  <2> SUFFICES ASSUME IInv PROVE GrantsAreLiteral
    OBVIOUS
  <2> DEFINE p == infer_policy(signals, llm, NoOverrides)
             raise(cap) == {t \in tools : classify_fs(t, cap) # {}}
  <2>1. ~ granted(p, "proc.exec")
    BY InferredClass DEF CapabilityId
  <2>2. ASSUME tools # {}
        PROVE  signals = manifest_signals(tools) /\ tools \subseteq ToolType
    BY <2>2 DEF IInv
  <2>3. tools # {} => ~ granted(p, "env")
    BY <2>2, EnvIsNeverGranted
  <2>4. ASSUME tools # {}, granted(p, "net.http")
        PROVE  /\ \A t \in tools : ~ takes_endpoint(t)
               /\ \A t \in tools : \A l \in t.literals :
                     \/ Last(LowerHost(l)) \in FileExtension \cup KnownTld
                     \/ [wild |-> "none", labels |-> LowerHost(l)] \in url_hosts(t)
               /\ p["net.http"].values # {}
               /\ p["net.http"].values =
                     UNION {url_hosts(t) \cup
                            {[wild |-> "none", labels |-> h] : h \in candidates(t)} : t \in tools}
    <3>1. /\ \A t \in tools : ~ takes_endpoint(t) /\ review_hosts(t) = {}
          /\ p["net.http"].values # {}
          /\ p["net.http"].values = UNION {Written(t) : t \in tools}
      BY <2>2, <2>4, NetGrantIsLiteral
    <3> QED
      BY <3>1, NamesAreConfirmed DEF Written
  <2>5. ASSUME tools # {}, NEW cap \in {"fs.read", "fs.write"}, granted(p, cap)
        PROVE  /\ \A t \in raise(cap) : path_literals(t) # {} /\ cap \in directions(t)
               /\ p[cap].values = UNION {path_literals(t) : t \in raise(cap)}
    BY <2>2, <2>5, FsGrantIsLiteral
  <2> QED
    BY <2>1, <2>3, <2>4, <2>5 DEF GrantsAreLiteral
<1> QED
  BY <1>1, Invariance, PTL
-----------------------------------------------------------------------------
(* The approval seam.                                                      *)

(* A reviewer's edits leave a list of entries.                             *)
LEMMA EditedPositions ==
    ASSUME NEW E, NEW old \in Seq(E), NEW caps \in Edited(old)
    PROVE  DOMAIN caps \subseteq Nat
<1>1. DOMAIN old = 1..Len(old) /\ Len(old) \in Nat
  OBVIOUS
<1>2. CASE \/ caps = old
           \/ \E i \in DOMAIN old : \E st \in {"inferred", "denied"} :
                 caps = [old EXCEPT ![i].status = st]
           \/ \E i \in DOMAIN old : caps = [old EXCEPT ![i].list = FALSE]
  BY <1>1, <1>2
<1>3. ASSUME NEW e, caps = Append(old, e) PROVE DOMAIN caps \subseteq Nat
  <2>1. old \in Seq(E \cup {e})
    BY SeqDef
  <2>2. Append(old, e) \in Seq(E \cup {e})
    BY <2>1, AppendProperties
  <2> QED
    BY <1>3, <2>2
<1>4. ASSUME NEW i \in DOMAIN old, caps = RemoveAt(old, i) PROVE DOMAIN caps \subseteq Nat
  <2>1. SubSeq(old, 1, i - 1) \in Seq(E) /\ SubSeq(old, i + 1, Len(old)) \in Seq(E)
    BY <1>1
  <2>2. caps \in Seq(E)
    BY <1>4, <2>1 DEF RemoveAt
  <2> QED
    BY <2>2
<1>5. \/ \E i \in DOMAIN old : \E st \in {"inferred", "denied"} :
            caps = Append(old, [old[i] EXCEPT !.status = st])
      \/ \E i \in DOMAIN old : caps = RemoveAt(old, i)
      \/ caps = old
      \/ \E i \in DOMAIN old : \E st \in {"inferred", "denied"} :
            caps = [old EXCEPT ![i].status = st]
      \/ \E i \in DOMAIN old : caps = [old EXCEPT ![i].list = FALSE]
  BY DEF Edited
<1> QED
  BY <1>2, <1>3, <1>4, <1>5

(* A block that is not refused is read entry by entry.                     *)
LEMMA BlockIsReadEntryByEntry ==
    ASSUME NEW caps, DOMAIN caps \subseteq Nat, well_formed(caps)
    PROVE  /\ \A i \in DOMAIN caps :
                 caps[i].list /\ load_caps(caps)[caps[i].id] =
                                    [status |-> caps[i].status, values |-> caps[i].values]
           /\ \A cap \in CapabilityId : granted(load_caps(caps), cap) =>
                 \E i \in DOMAIN caps : caps[i].id = cap
<1>1. ASSUME NEW i \in DOMAIN caps
      PROVE  caps[i].list /\ load_caps(caps)[caps[i].id] =
                                [status |-> caps[i].status, values |-> caps[i].values]
  <2> DEFINE at == {j \in DOMAIN caps : caps[j].id = caps[i].id}
  <2>1. caps[i].list /\ caps[i].id \in CapabilityId /\ at = {i} /\ i \in Nat
    BY <1>1 DEF well_formed
  <2>2. Min(at) = i
    BY <2>1 DEF Min
  <2> HIDE DEF at
  <2>3. load_caps(caps)[caps[i].id] =
           IF at = {} THEN [status |-> "denied", values |-> {}]
           ELSE [status |-> caps[Min(at)].status, values |-> caps[Min(at)].values]
    BY <2>1 DEF load_caps, at
  <2> QED
    BY <2>1, <2>2, <2>3
<1>2. ASSUME NEW cap \in CapabilityId, granted(load_caps(caps), cap)
      PROVE  \E i \in DOMAIN caps : caps[i].id = cap
  BY <1>2 DEF granted, load_caps
<1> QED
  BY <1>1, <1>2

(* What an edited document, and one whose extension was cut off, read as.  *)
LEMMA EditedDocument ==
    ASSUME NEW pol, NEW caps
    PROVE  LET doc    == policy_to_dict(pol, "bound")
               edited == [doc EXCEPT !.ext[1].caps = caps]
           IN  /\ doc.ext[1].caps = CapsOf(pol)
               /\ load_policy(edited) = IF well_formed(caps)
                                          THEN [hash |-> "bound", policy |-> load_caps(caps)]
                                          ELSE Rejected
               /\ load_policy([edited EXCEPT !.ext = << >>]).hash = Unbound
<1> DEFINE doc    == policy_to_dict(pol, "bound")
           edited == [doc EXCEPT !.ext[1].caps = caps]
           block  == [hash |-> "bound", caps |-> CapsOf(pol)]
<1>1. doc.ext = <<block>> /\ doc = [permissions |-> permissions_block(pol), ext |-> <<block>>]
  BY DEF policy_to_dict
<1>2. edited = [doc EXCEPT !.ext = [doc.ext EXCEPT ![1] = [doc.ext[1] EXCEPT !.caps = caps]]]
  OBVIOUS
<1>3. [block EXCEPT !.caps = caps] = [hash |-> "bound", caps |-> caps]
  OBVIOUS
<1>4. doc.ext[1] = block /\ block.caps = CapsOf(pol)
  BY <1>1
<1> HIDE DEF block, doc, edited
<1>5. edited.ext = [<<block>> EXCEPT ![1] = [hash |-> "bound", caps |-> caps]]
  BY <1>1, <1>2, <1>3, <1>4
<1>6. edited.ext = <<[hash |-> "bound", caps |-> caps]>>
  BY <1>5
<1>7. edited.ext # << >> /\ edited.ext[1] = [hash |-> "bound", caps |-> caps]
  BY <1>6
<1>8. load_policy(edited) = IF well_formed(caps)
                              THEN [hash |-> "bound", policy |-> load_caps(caps)] ELSE Rejected
  BY <1>7 DEF load_policy
<1>9. [edited EXCEPT !.ext = << >>].ext = << >>
  BY <1>1, <1>2
<1>10. load_policy([edited EXCEPT !.ext = << >>]).hash = Unbound
  BY <1>9 DEF load_policy
<1> QED
  BY <1>4, <1>8, <1>10 DEF doc, edited

(* The block of a policy lists every class once, and reads back.           *)
LEMMA BlockReadsBack ==
    ASSUME NEW pol, IsPolicy(pol)
    PROVE  /\ \E E : CapsOf(pol) \in Seq(E)
           /\ well_formed(CapsOf(pol))
           /\ load_caps(CapsOf(pol)) = pol
<1> DEFINE caps == CapsOf(pol)
<1>1. DOMAIN CapOrder = 1..5 /\ Len(CapOrder) = 5
  BY DEF CapOrder
<1>2. \A i \in 1..5 : CapOrder[i] \in CapabilityId
  BY DEF CapOrder, CapabilityId
<1>3. \A i, j \in 1..5 : CapOrder[i] = CapOrder[j] => i = j
  BY DEF CapOrder
<1>4. \A c \in CapabilityId : \E i \in 1..5 : CapOrder[i] = c
  <2>1. /\ CapOrder[1] = "net.http" /\ CapOrder[2] = "fs.read" /\ CapOrder[3] = "fs.write"
        /\ CapOrder[4] = "proc.exec" /\ CapOrder[5] = "env"
    BY DEF CapOrder
  <2> QED
    BY <2>1 DEF CapabilityId
<1>5. DOMAIN caps = 1..5 /\ \A i \in 1..5 :
        caps[i] = [id |-> CapOrder[i], status |-> pol[CapOrder[i]].status,
                   list |-> TRUE, values |-> pol[CapOrder[i]].values]
  BY <1>1 DEF CapsOf
<1>6. caps \in Seq({caps[i] : i \in 1..5})
  <2>1. caps = [i \in 1..5 |-> caps[i]]
    BY <1>1 DEF CapsOf
  <2> HIDE DEF caps
  <2>2. caps \in [1..5 -> {caps[i] : i \in 1..5}]
    BY <2>1
  <2> QED
    BY <2>2, SeqDef
<1> HIDE DEF caps
<1>7. well_formed(caps)
  BY <1>2, <1>3, <1>5 DEF well_formed
<1>8. load_caps(caps) = pol
  <2>1. DOMAIN load_caps(caps) = CapabilityId
    BY DEF load_caps
  <2>2. ASSUME NEW c \in CapabilityId PROVE load_caps(caps)[c] = pol[c]
    <3>1. PICK i \in 1..5 : CapOrder[i] = c
      BY <1>4
    <3>2. load_caps(caps)[caps[i].id] = [status |-> caps[i].status, values |-> caps[i].values]
      BY <1>5, <1>7, BlockIsReadEntryByEntry
    <3>3. load_caps(caps)[c] = [status |-> pol[c].status, values |-> pol[c].values]
      BY <1>5, <3>1, <3>2
    <3>4. pol[c] = [status |-> pol[c].status, values |-> pol[c].values]
      BY DEF IsPolicy
    <3> QED
      BY <3>3, <3>4
  <2>3. load_caps(caps) = [c \in CapabilityId |-> load_caps(caps)[c]]
    BY DEF load_caps
  <2>4. pol = [c \in CapabilityId |-> pol[c]]
    BY DEF IsPolicy
  <2> QED
    BY <2>2, <2>3, <2>4
<1>9. \E E : caps \in Seq(E)
  BY <1>6
<1> QED
  BY <1>7, <1>8, <1>9 DEF caps

(* The approval seam: an edited policy is refused, or every class reads as *)
(* each entry for it says.  (io.py policy_to_dict, _load_caps)             *)
THEOREM EditsAreKept == Spec => []EditsAreHonoured
<1>1. IInv => EditsAreHonoured
  <2> DEFINE doc == policy_to_dict(policy, "bound")
             edited(caps) == [doc EXCEPT !.ext[1].caps = caps]
             loaded(caps) == load_policy(edited(caps))
  <2> SUFFICES ASSUME IInv, NEW caps \in Edited(doc.ext[1].caps)
               PROVE  /\ caps = doc.ext[1].caps => loaded(caps).policy = policy
                      /\ loaded(caps) = Rejected \/
                           /\ verify_manifest_hash(loaded(caps), "bound")
                           /\ \A i \in DOMAIN caps :
                                 caps[i].list /\ loaded(caps).policy[caps[i].id] =
                                                  [status |-> caps[i].status, values |-> caps[i].values]
                           /\ \A c \in CapabilityId : granted(loaded(caps).policy, c) =>
                                 \E i \in DOMAIN caps : caps[i].id = c
                      /\ ~ verify_manifest_hash(load_policy([edited(caps) EXCEPT !.ext = << >>]), "bound")
    BY DEF EditsAreHonoured
  <2>1. /\ doc.ext[1].caps = CapsOf(policy)
        /\ loaded(caps) = IF well_formed(caps)
                            THEN [hash |-> "bound", policy |-> load_caps(caps)] ELSE Rejected
        /\ load_policy([edited(caps) EXCEPT !.ext = << >>]).hash = Unbound
    BY EditedDocument
  <2>2. IsPolicy(policy)
    BY DEF IInv
  <2> HIDE DEF doc, edited, loaded
  <2>3. DOMAIN caps \subseteq Nat
    BY <2>1, <2>2, BlockReadsBack, EditedPositions
  <2>4. caps = doc.ext[1].caps => loaded(caps).policy = policy
    <3>1. caps = CapsOf(policy) => well_formed(caps) /\ load_caps(caps) = policy
      BY <2>2, BlockReadsBack
    <3> QED
      BY <2>1, <3>1
  <2>5. CASE well_formed(caps)
    <3>1. loaded(caps).hash = "bound" /\ loaded(caps).policy = load_caps(caps)
      BY <2>1, <2>5
    <3>2. /\ \A i \in DOMAIN caps :
                caps[i].list /\ loaded(caps).policy[caps[i].id] =
                                   [status |-> caps[i].status, values |-> caps[i].values]
          /\ \A c \in CapabilityId : granted(loaded(caps).policy, c) =>
                \E i \in DOMAIN caps : caps[i].id = c
      BY <2>3, <2>5, <3>1, BlockIsReadEntryByEntry
    <3> QED
      BY <2>1, <2>4, <3>1, <3>2 DEF verify_manifest_hash, Unbound
  <2>6. CASE ~ well_formed(caps)
    BY <2>1, <2>4, <2>6 DEF verify_manifest_hash, Unbound
  <2> QED
    BY <2>5, <2>6
<1> QED
  BY <1>1, Invariance, PTL

-----------------------------------------------------------------------------
(* The strict projection.                                                  *)

(* Written without a name that is empty, it passes the schema check.       *)
LEMMA ProjectionConforms ==
    ASSUME NEW pol, Emits(pol), HasNames(pol)
    PROVE  policy_mcp_base_conforms(permissions_block(pol))
<1> DEFINE doc == permissions_block(pol)
<1>1. ASSUME NEW g \in doc.network PROVE check_network_perm(g)
  <2>1. PICK v \in granted_values(pol, "net.http") : g = net_grant(v)
    BY DEF permissions_block
  <2>2. v # EmptyHost
    BY DEF HasNames, granted_values
  <2>3. g.value = v /\ g.key = IF v \in Cidr THEN "cidr" ELSE "host"
    BY <2>1 DEF net_grant
  <2> QED
    BY <2>2, <2>3 DEF check_network_perm
<1>2. ASSUME NEW g \in doc.storage PROVE check_storage_perm(g)
  <2>1. PICK p \in granted_values(pol, "fs.read") \cup granted_values(pol, "fs.write") :
           g = [uri |-> p, access |-> {a \in DOMAIN AccessCap : p \in granted_values(pol, AccessCap[a])}]
    BY DEF permissions_block, StorageGrants
  <2>2. g.access = {a \in {"read", "write"} : p \in granted_values(pol, AccessCap[a])}
    BY <2>1 DEF AccessCap
  <2>3. AccessCap["read"] = "fs.read" /\ AccessCap["write"] = "fs.write"
    BY DEF AccessCap
  <2> QED
    BY <2>1, <2>2, <2>3 DEF check_storage_perm
<1>3. ASSUME NEW key \in doc.environment PROVE check_environment(key)
  BY DEF permissions_block, HasNames, granted_values, Emits, check_environment
<1> QED
  BY <1>1, <1>2, <1>3 DEF policy_mcp_base_conforms

(* What an import makes of the projection: the granted values of every     *)
(* class but proc.exec, without a class-level env "*".                     *)
ReadBack(pol, cap) ==
    CASE cap = "env"       -> granted_values(pol, "env") \ {"*"}
      [] cap = "proc.exec" -> {}
      [] OTHER             -> granted_values(pol, cap)

LEMMA ProjectionReadsBack ==
    ASSUME NEW pol, HasNames(pol),
           \A c \in {"fs.read", "fs.write"} : \A p \in pol[c].values : storage_uri_to_prefix(p) = p
    PROVE  \A cap \in CapabilityId :
              import_foreign(permissions_block(pol))[cap] =
                 [status |-> IF ReadBack(pol, cap) # {} THEN "inferred" ELSE "denied",
                  values |-> ReadBack(pol, cap)]
<1> DEFINE doc == permissions_block(pol)
           values == [cap \in CapabilityId |->
             CASE cap = "net.http" -> {g.value : g \in doc.network} \ {EmptyHost}
               [] cap = "fs.read"  -> prefixes(doc.storage, "read")
               [] cap = "fs.write" -> prefixes(doc.storage, "write")
               [] cap = "env"      -> doc.environment \ {Empty}
               [] OTHER            -> {}]
<1>1. {g.value : g \in doc.network} \ {EmptyHost} = granted_values(pol, "net.http")
  <2>1. \A v : net_grant(v).value = v
    BY DEF net_grant
  <2>2. doc.network = {net_grant(v) : v \in granted_values(pol, "net.http")}
    BY DEF permissions_block
  <2>3. EmptyHost \notin granted_values(pol, "net.http")
    BY DEF HasNames, granted_values
  <2>4. {g.value : g \in doc.network} = granted_values(pol, "net.http")
    BY <2>1, <2>2
  <2> QED
    BY <2>3, <2>4
<1>2. ASSUME NEW a \in {"read", "write"}
      PROVE  prefixes(doc.storage, a) = granted_values(pol, AccessCap[a])
  <2> DEFINE grant(p) == [uri |-> p,
                          access |-> {b \in DOMAIN AccessCap : p \in granted_values(pol, AccessCap[b])}]
             both == granted_values(pol, "fs.read") \cup granted_values(pol, "fs.write")
             gs   == {h \in doc.storage : a \in h.access}
  <2>1. doc.storage = {grant(p) : p \in both}
    BY DEF permissions_block, StorageGrants
  <2>2. AccessCap["read"] = "fs.read" /\ AccessCap["write"] = "fs.write" /\ a \in DOMAIN AccessCap
    BY DEF AccessCap
  <2>3. granted_values(pol, AccessCap[a]) \subseteq both
    BY <2>2
  <2>4. \A p : grant(p).uri = p /\ (a \in grant(p).access <=> p \in granted_values(pol, AccessCap[a]))
    BY <2>2
  <2>5. \A p \in both : storage_uri_to_prefix(p) = p
    BY DEF granted_values
  <2>6. prefixes(doc.storage, a) = {storage_uri_to_prefix(g.uri) : g \in gs}
    BY DEF prefixes
  <2> HIDE DEF grant, both, doc
  <2>7. \A g \in gs : \E p \in granted_values(pol, AccessCap[a]) : g = grant(p)
    BY <2>1, <2>4
  <2>8. \A p \in granted_values(pol, AccessCap[a]) : grant(p) \in gs
    BY <2>1, <2>3, <2>4
  <2> HIDE DEF gs
  <2>9. \A p \in granted_values(pol, AccessCap[a]) : storage_uri_to_prefix(grant(p).uri) = p
    BY <2>3, <2>4, <2>5
  <2> QED
    BY <2>6, <2>7, <2>8, <2>9
<1>3. doc.environment \ {Empty} = granted_values(pol, "env") \ {"*"}
  BY DEF permissions_block, granted_values, HasNames
<1>4. prefixes(doc.storage, "read") = granted_values(pol, "fs.read")
  BY <1>2 DEF AccessCap
<1>5. prefixes(doc.storage, "write") = granted_values(pol, "fs.write")
  BY <1>2 DEF AccessCap
<1>6. import_foreign(doc) =
        [cap \in CapabilityId |->
           [status |-> IF values[cap] # {} THEN "inferred" ELSE "denied", values |-> values[cap]]]
  BY DEF import_foreign
<1> HIDE DEF doc
<1>7. ASSUME NEW cap \in CapabilityId PROVE values[cap] = ReadBack(pol, cap)
  BY <1>1, <1>3, <1>4, <1>5 DEF CapabilityId, ReadBack
<1> HIDE DEF values
<1> QED
  BY <1>6, <1>7 DEF doc

(* What a class read from a foreign document grants.                       *)
LEMMA ImportedGrant ==
    ASSUME NEW pol, NEW cap, NEW value, NEW V,
           pol[cap] = [status |-> IF V # {} THEN "inferred" ELSE "denied", values |-> V]
    PROVE  PolicyGrants(pol, cap, value) <=> V # {} /\ value_matches(cap, value, V)
<1>1. pol[cap].values = V /\ (pol[cap].status = "inferred" <=> V # {})
  OBVIOUS
<1> QED
  BY <1>1 DEF PolicyGrants, granted

(* The strict projection passes the repository's own schema check, and a   *)
(* consumer that reads it back grants the same events.  (io.py             *)
(* _permissions_block and _import_foreign, conformance.py)                 *)
THEOREM ProjectionFaithful == Spec => []BaseIsFaithful
<1>1. BaseIsFaithful
  <2> DEFINE m   == event_capability(event)
             doc == policy_to_policy_mcp_base(policy)
             q   == load_policy(doc).policy
  <2>1. doc.permissions = permissions_block(policy) /\ q = import_foreign(permissions_block(policy))
    BY DEF policy_to_policy_mcp_base, load_policy
  <2>2. Emits(policy) /\ HasNames(policy) => policy_mcp_base_conforms(doc.permissions)
    BY <2>1, ProjectionConforms
  <2>3. ASSUME HasNames(policy), m.cap # NoCap,
               \A c \in {"fs.read", "fs.write"} : \A p \in policy[c].values :
                   storage_uri_to_prefix(p) = p
        PROVE  PolicyGrants(q, m.cap, m.value) <=>
                   /\ PolicyGrants(policy, m.cap, m.value)
                   /\ m.cap # "proc.exec"
                   /\ m.cap = "env" => m.value \in policy["env"].values \ {"*"}
    <3>1. m.cap \in CapabilityId
      BY <2>3, CapOfEvent
    <3> HIDE DEF m
    <3>2. q[m.cap] = [status |-> IF ReadBack(policy, m.cap) # {} THEN "inferred" ELSE "denied",
                      values |-> ReadBack(policy, m.cap)]
      BY <2>1, <2>3, <3>1, ProjectionReadsBack
    <3> HIDE DEF q
    <3>3. PolicyGrants(q, m.cap, m.value) <=>
             ReadBack(policy, m.cap) # {} /\ value_matches(m.cap, m.value, ReadBack(policy, m.cap))
      BY <3>2, ImportedGrant
    <3>4. CASE m.cap = "env"
      BY <3>3, <3>4 DEF PolicyGrants, granted, granted_values, value_matches, ReadBack
    <3>5. CASE m.cap = "proc.exec"
      BY <3>3, <3>5 DEF ReadBack
    <3>6. CASE m.cap \notin {"env", "proc.exec"}
      BY <3>3, <3>6 DEF PolicyGrants, granted, granted_values, ReadBack
    <3> QED
      BY <3>4, <3>5, <3>6
  <2> QED
    BY <2>2, <2>3 DEF BaseIsFaithful
<1> QED
  BY <1>1, PTL

-----------------------------------------------------------------------------
(* Paths.  A rooted path is normalised to the directory a walk from the    *)
(* root reaches, which has nothing left in it to normalise.                *)

Directory == {dir \in Seq(STRING) : \A i \in DOMAIN dir : dir[i] \notin {"..", ".", Empty}}

LEMMA AppendAt ==
    ASSUME NEW E, NEW s \in Seq(E), NEW e \in E
    PROVE  /\ Append(s, e) \in Seq(E)
           /\ \A i \in DOMAIN Append(s, e) : Append(s, e)[i] = IF i \in DOMAIN s THEN s[i] ELSE e
<1> DEFINE t == Append(s, e)
<1>1. t \in Seq(E) /\ Len(t) = Len(s) + 1 /\ t[Len(s) + 1] = e
      /\ \A i \in 1..Len(s) : t[i] = s[i]
  BY AppendProperties
<1>2. Len(s) \in Nat /\ DOMAIN s = 1..Len(s)
  OBVIOUS
<1> HIDE DEF t
<1>3. DOMAIN t = 1..Len(s) + 1
  BY <1>1, LenProperties
<1> QED
  BY <1>1, <1>2, <1>3 DEF t

(* One step of a walk stays a directory, and is the step of normpath.      *)
LEMMA OneStep ==
    ASSUME NEW dir \in Directory, NEW c \in STRING
    PROVE  WalkStep(dir, c) \in Directory /\ NormStep(TRUE, dir, c) = WalkStep(dir, c)
<1>1. dir \in Seq(STRING) /\ Len(dir) \in Nat /\ DOMAIN dir = 1..Len(dir)
  BY DEF Directory
<1>2. dir # << >> => /\ Last(dir) # ".."
                     /\ Front(dir) \in Seq(STRING) /\ Len(Front(dir)) = Len(dir) - 1
                     /\ \A i \in DOMAIN Front(dir) : Front(dir)[i] = dir[i] /\ i \in DOMAIN dir
  <2> SUFFICES ASSUME dir # << >>
               PROVE  /\ Last(dir) # ".."
                      /\ Front(dir) \in Seq(STRING) /\ Len(Front(dir)) = Len(dir) - 1
                      /\ \A i \in DOMAIN Front(dir) : Front(dir)[i] = dir[i] /\ i \in DOMAIN dir
    OBVIOUS
  <2>1. Len(dir) \in 1..Len(dir)
    BY <1>1, EmptySeq
  <2>2. Last(dir) # ".."
    BY <1>1, <2>1 DEF Last, Directory
  <2>3. /\ Front(dir) \in Seq(STRING) /\ Len(Front(dir)) = Len(dir) - 1
        /\ \A i \in 1..Len(dir) - 1 : Front(dir)[i] = dir[i]
    BY <1>1, <2>1 DEF Front
  <2> QED
    BY <1>1, <2>1, <2>2, <2>3
<1>3. Append(dir, c) \in Seq(STRING) /\ \A i \in DOMAIN Append(dir, c) :
         Append(dir, c)[i] = IF i \in DOMAIN dir THEN dir[i] ELSE c
  BY <1>1, AppendAt
<1>4. dir # << >> => Front(dir) \in Directory
  BY <1>2 DEF Directory
<1>5. c \notin {"..", ".", Empty} => Append(dir, c) \in Directory
  BY <1>3 DEF Directory
<1>6. WalkStep(dir, c) \in Directory
  BY <1>4, <1>5 DEF WalkStep
<1>7. NormStep(TRUE, dir, c) = WalkStep(dir, c)
  BY <1>2 DEF NormStep, WalkStep, Empty
<1> QED
  BY <1>6, <1>7

(* A function that takes every step is the walk.                           *)
LEMMA WalkIsDetermined ==
    ASSUME NEW comps \in Seq(STRING), NEW dir,
           \A k \in 0..Len(comps) : dir[k] = IF k = 0 THEN << >> ELSE WalkStep(dir[k - 1], comps[k])
    PROVE  Walk(comps) = dir[Len(comps)]
<1> DEFINE n == Len(comps)
           Walking(g) == g = [k \in 0..n |-> IF k = 0 THEN << >> ELSE WalkStep(g[k - 1], comps[k])]
           walk == CHOOSE g : Walking(g)
           S    == {k \in Nat : k <= n => walk[k] = dir[k]}
<1>1. n \in Nat
  OBVIOUS
<1>2. Walk(comps) = walk[n]
  BY DEF Walk
<1> HIDE DEF n
<1>3. Walking([k \in 0..n |-> dir[k]])
  <2> DEFINE g == [k \in 0..n |-> dir[k]]
  <2>1. ASSUME NEW k \in 0..n
        PROVE  dir[k] = IF k = 0 THEN << >> ELSE WalkStep(g[k - 1], comps[k])
    <3>1. k # 0 => g[k - 1] = dir[k - 1]
      BY <1>1
    <3> QED
      BY <3>1 DEF n
  <2> HIDE DEF g
  <2>2. g = [k \in 0..n |-> IF k = 0 THEN << >> ELSE WalkStep(g[k - 1], comps[k])]
    BY <2>1 DEF g
  <2> QED
    BY <2>2 DEF g
<1>4. Walking(walk)
  BY <1>3
<1> HIDE DEF walk
<1>5. 0 \in S
  BY <1>1, <1>4 DEF n
<1>6. ASSUME NEW k \in Nat, k \in S
      PROVE  k + 1 \in S
  <2> SUFFICES ASSUME k + 1 <= n PROVE walk[k + 1] = dir[k + 1]
    OBVIOUS
  <2>1. k + 1 \in 0..n /\ k + 1 # 0 /\ (k + 1) - 1 = k /\ walk[k] = dir[k]
    BY <1>1, <1>6
  <2>2. walk[k + 1] = WalkStep(walk[k], comps[k + 1])
    BY <1>4, <2>1
  <2>3. dir[k + 1] = WalkStep(dir[k], comps[k + 1])
    BY <2>1 DEF n
  <2> QED
    BY <2>1, <2>2, <2>3
<1> HIDE DEF S
<1>7. n \in S
  BY <1>1, <1>5, <1>6, InductiveSet
<1> QED
  BY <1>1, <1>2, <1>7 DEF S, n

LEMMA NormalisedByWalking ==
    ASSUME NEW p \in Path, p.slashes > 0
    PROVE  /\ normpath(p) = [slashes |-> p.slashes, comps |-> Walk(p.comps)]
           /\ Walk(p.comps) \in Directory
<1> DEFINE n == Len(p.comps)
           Walking(g)  == g = [k \in 0..n |-> IF k = 0 THEN << >> ELSE WalkStep(g[k - 1], p.comps[k])]
           Norming(g)  == g = [k \in 0..n |-> IF k = 0 THEN << >>
                                              ELSE NormStep(p.slashes > 0, g[k - 1], p.comps[k])]
           norm == CHOOSE g : Norming(g)
<1>1. n \in Nat /\ \A k \in 1..n : p.comps[k] \in STRING
  BY DEF Path
<1>2. << >> \in Directory
  BY DEF Directory
<1> HIDE DEF n
<1>3. \E g : Walking(g) /\ \A k \in 0..n : g[k] \in Directory
  <2> DEFINE step == [x \in Directory \X (1..n) |-> WalkStep(x[1], p.comps[x[2]])]
  <2>1. \A d \in Directory : \A k \in 1..n : step[<<d, k>>] = WalkStep(d, p.comps[k])
    OBVIOUS
  <2>2. Stays(step, Directory, n)
    BY <1>1, <2>1, OneStep DEF Stays
  <2> HIDE DEF step
  <2>3. PICK g : IsLoop(g, Directory, << >>, step, n)
    BY <1>1, <1>2, <2>2, LoopExists
  <2>4. /\ g \in [0..n -> Directory] /\ g[0] = << >>
        /\ \A k \in 1..n : g[k] = step[<<g[k - 1], k>>] /\ g[k - 1] \in Directory
    BY <1>1, <2>3 DEF IsLoop
  <2>5. \A k \in 0..n : g[k] = IF k = 0 THEN << >> ELSE WalkStep(g[k - 1], p.comps[k])
    <3> TAKE k \in 0..n
    <3>1. k # 0 => k \in 1..n
      BY <1>1
    <3>2. k # 0 => g[k] = WalkStep(g[k - 1], p.comps[k])
      BY <2>1, <2>4, <3>1
    <3> QED
      BY <2>4, <3>2
  <2>6. Walking(g)
    BY <2>4, <2>5
  <2> QED
    BY <2>4, <2>6
<1>4. PICK dir : Walking(dir) /\ \A k \in 0..n : dir[k] \in Directory
  BY <1>3
<1>5. \A k \in 0..n : dir[k] = IF k = 0 THEN << >> ELSE WalkStep(dir[k - 1], p.comps[k])
  BY <1>4
<1>6. Norming(dir)
  <2>1. \A k \in 0..n : k # 0 => NormStep(p.slashes > 0, dir[k - 1], p.comps[k]) = dir[k]
    <3> TAKE k \in 0..n
    <3> HAVE k # 0
    <3>1. k \in 1..n /\ k - 1 \in 0..n
      BY <1>1
    <3>2. dir[k] = WalkStep(dir[k - 1], p.comps[k]) /\ dir[k - 1] \in Directory /\ p.comps[k] \in STRING
      BY <1>1, <1>4, <1>5, <3>1
    <3>3. NormStep(TRUE, dir[k - 1], p.comps[k]) = dir[k]
      BY <3>2, OneStep
    <3>4. (p.slashes > 0) = TRUE
      OBVIOUS
    <3> QED
      BY <3>3, <3>4
  <2>2. \A k \in 0..n : dir[k] = IF k = 0 THEN << >>
                                 ELSE NormStep(p.slashes > 0, dir[k - 1], p.comps[k])
    BY <1>5, <2>1
  <2>3. dir = [k \in 0..n |-> dir[k]]
    BY <1>4
  <2> QED
    BY <2>2, <2>3
<1>7. Norming(norm)
  BY <1>6
<1>8. Walk(p.comps) = dir[n]
  BY <1>5, WalkIsDetermined DEF n, Path
<1>9. normpath(p) = [slashes |-> p.slashes, comps |-> norm[n]]
  BY DEF normpath, n
<1> HIDE DEF norm
<1> DEFINE S == {k \in Nat : k <= n => norm[k] = dir[k]}
<1>10. 0 \in S
  BY <1>1, <1>4, <1>7
<1>11. ASSUME NEW k \in Nat, k \in S
       PROVE  k + 1 \in S
  <2> SUFFICES ASSUME k + 1 <= n PROVE norm[k + 1] = dir[k + 1]
    OBVIOUS
  <2>1. k + 1 \in 0..n /\ k + 1 # 0 /\ (k + 1) - 1 = k /\ norm[k] = dir[k]
    BY <1>1, <1>11
  <2>2. /\ norm[k + 1] = NormStep(p.slashes > 0, norm[k], p.comps[k + 1])
        /\ dir[k + 1] = NormStep(p.slashes > 0, dir[k], p.comps[k + 1])
    BY <1>6, <1>7, <2>1
  <2> QED
    BY <2>1, <2>2
<1> HIDE DEF S
<1>12. n \in S
  BY <1>1, <1>10, <1>11, InductiveSet
<1>13. norm[n] = dir[n]
  BY <1>1, <1>12 DEF S
<1>14. dir[n] \in Directory
  BY <1>1, <1>4
<1> QED
  BY <1>8, <1>9, <1>13, <1>14

(* Normalising what is normalised changes nothing.                         *)
LEMMA NormalisedOnce ==
    ASSUME NEW p \in Path, p.slashes > 0
    PROVE  normpath(p) \in Path /\ normpath(normpath(p)) = normpath(p)
<1> DEFINE d == Walk(p.comps)
           q == normpath(p)
           g == [k \in 0..Len(d) |-> SubSeq(d, 1, k)]
<1>1. q = [slashes |-> p.slashes, comps |-> d] /\ d \in Directory
  BY NormalisedByWalking
<1> HIDE DEF d, q
<1>2. d \in Seq(STRING) /\ Len(d) \in Nat
  BY <1>1 DEF Directory
<1>3. q \in Path /\ q.slashes = p.slashes /\ q.comps = d
  BY <1>1, <1>2 DEF Path
<1>4. ASSUME NEW k \in 0..Len(d)
      PROVE  g[k] = IF k = 0 THEN << >> ELSE WalkStep(g[k - 1], d[k])
  <2>1. CASE k = 0
    BY <2>1, SubSeqEmpty
  <2>2. CASE k # 0
    <3>1. k \in 1..Len(d) /\ k - 1 \in 0..Len(d) /\ d[k] \in STRING /\ d[k] \notin {"..", ".", Empty}
      BY <1>1, <1>2, <2>2 DEF Directory
    <3>2. WalkStep(g[k - 1], d[k]) = Append(SubSeq(d, 1, k - 1), d[k])
      BY <3>1 DEF WalkStep
    <3>3. Append(SubSeq(d, 1, k - 1), d[k]) = SubSeq(d, 1, k)
      BY <1>2, <3>1
    <3> QED
      BY <2>2, <3>2, <3>3
  <2> QED
    BY <2>1, <2>2
<1>5. Walk(d) = g[Len(d)]
  <2> HIDE DEF g
  <2> QED
    BY <1>2, <1>4, WalkIsDetermined
<1>6. g[Len(d)] = d
  BY <1>2, SubSeqFull
<1>7. normpath(q) = [slashes |-> q.slashes, comps |-> Walk(q.comps)]
  BY <1>3, NormalisedByWalking
<1> QED
  BY <1>1, <1>3, <1>5, <1>6, <1>7 DEF q

(* IsPrefix on sequences: reflexive, with << >> below everything.          *)
LEMMA PrefixBounds ==
    ASSUME NEW s \in Seq(STRING)
    PROVE  IsPrefix(s, s) /\ IsPrefix(<< >>, s)
BY DEF IsPrefix

(* Whether a path is inside an absolute prefix is decided by the places    *)
(* the two lead to.  (path_matches)                                        *)
THEOREM PathsAreContained == Spec => []PathMatchIsContainment
<1>1. IInv => PathMatchIsContainment
  <2> SUFFICES ASSUME IInv, event.kind = "fs.open", event.path.slashes > 0,
                      NEW q \in policy["fs.read"].values, q.slashes = 1
               PROVE  path_matches(event.path, {q}) <=>
                        \/ event.path.slashes = 1 /\ IsPrefix(Walk(q.comps), Walk(event.path.comps))
                        \/ event.path.slashes = 2 /\ Walk(q.comps) = << >>
    BY DEF PathMatchIsContainment
  <2> DEFINE path == event.path
             at   == Walk(path.comps)
             in   == Walk(q.comps)
  <2>1. path \in Path /\ path.slashes \in {1, 2}
    BY DEF IInv, Event, Path
  <2>2. q \in Path
    BY DEF IInv, IsPolicy, ValueSet, CapabilityId
  <2>3. normpath(path) = [slashes |-> path.slashes, comps |-> at] /\ at \in Seq(STRING)
    BY <2>1, NormalisedByWalking DEF Directory
  <2>4. normpath(q) = [slashes |-> 1, comps |-> in] /\ in \in Seq(STRING)
    BY <2>2, NormalisedByWalking DEF Directory
  <2> HIDE DEF path, at, in
  <2>5. IsPrefix(at, at) /\ IsPrefix(<< >>, at)
    BY <2>3, PrefixBounds
  <2>6. path_matches(path, {q}) <=>
           UnderPrefix([slashes |-> path.slashes, comps |-> at], [slashes |-> 1, comps |-> in])
    BY <2>3, <2>4 DEF path_matches
  <2> QED
    BY <2>1, <2>5, <2>6 DEF UnderPrefix, path, at, in
<1> QED
  BY <1>1, Invariance, PTL

-----------------------------------------------------------------------------
(* The docker command line.                                                *)

(* The filter keeps every flag but the network flags.                      *)
LEMMA NetworkFlagsAreDropped ==
    ASSUME NEW E, NEW args \in Seq(E)
    PROVE  /\ without_network_flag(args) \in Seq(E)
           /\ Range(without_network_flag(args)) = {a \in Range(args) : a.flag # "--network"}
<1> DEFINE at == {i \in DOMAIN args : args[i].flag # "--network"}
<1>1. {args[i] : i \in at} = {a \in Range(args) : a.flag # "--network"}
  BY DEF Range
<1>2. at \cap DOMAIN args = at
  OBVIOUS
<1> HIDE DEF at
<1>3. Picked(args, at) \in Seq(E) /\ Range(Picked(args, at)) = {args[i] : i \in at \cap DOMAIN args}
  BY PickedIs
<1> QED
  BY <1>1, <1>2, <1>3 DEF without_network_flag, at

(* A finite set is listed without a gap.                                   *)
LEMMA SetsAreListed ==
    ASSUME NEW S, IsFiniteSet(S)
    PROVE  SetToSeq(S) \in Seq(S) /\ Range(SetToSeq(S)) = S
<1> DEFINE n == Cardinality(S)
           list == SetToSeq(S)
<1>1. n \in Nat /\ ExistsBijection(1..n, S)
  BY FS_CardinalityType
<1>2. PICK f \in Bijection(1..n, S) : TRUE
  BY <1>1, Fun_ExistsBij
<1>3. f \in [1..n -> S] /\ IsInjective(f)
  <2>1. f \in [1..n -> S] /\ \A a, b \in 1..n : f[a] = f[b] => a = b
    BY <1>2, Fun_BijectionProperties
  <2> QED
    BY <2>1 DEF IsInjective
<1>4. list \in [1..n -> S] /\ IsInjective(list)
  BY <1>3 DEF SetToSeq
<1> HIDE DEF list
<1>5. IsFiniteSet(1..n) /\ Cardinality(1..n) = n
  <2>1. 1 \in Int /\ n \in Int
    BY <1>1
  <2>2. IsFiniteSet(1..n) /\ Cardinality(1..n) = IF 1 > n THEN 0 ELSE n - 1 + 1
    BY <2>1, FS_Interval
  <2> QED
    BY <1>1, <2>2
<1>6. list \in Injection(1..n, S)
  BY <1>4 DEF Injection
<1>7. list \in Surjection(1..n, S)
  BY <1>5, <1>6, FS_Injection
<1>8. Range(list) = S
  BY <1>7, Fun_SurjectionProperties
<1>9. list \in Seq(S)
  BY <1>1, <1>4, SeqDef
<1> QED
  BY <1>8, <1>9 DEF list

LEMMA FlagsAreListed ==
    ASSUME NEW f, NEW V, IsFiniteSet(V)
    PROVE  /\ FlagsOf(f, V) \in Seq({Flag(f, v) : v \in V})
           /\ Range(FlagsOf(f, V)) = {Flag(f, v) : v \in V}
<1> DEFINE s == SetToSeq(V)
           t == [i \in DOMAIN s |-> Flag(f, s[i])]
<1>1. s \in Seq(V) /\ Range(s) = V
  BY SetsAreListed
<1>2. FlagsOf(f, V) = t
  BY DEF FlagsOf
<1> HIDE DEF s
<1>3. Len(s) \in Nat /\ DOMAIN s = 1..Len(s) /\ \A i \in 1..Len(s) : s[i] \in V
  BY <1>1
<1>4. t \in [1..Len(s) -> {Flag(f, v) : v \in V}]
  BY <1>3
<1>5. Range(t) = {Flag(f, v) : v \in V}
  BY <1>1, <1>3 DEF Range
<1>6. t \in Seq({Flag(f, v) : v \in V})
  BY <1>3, <1>4, SeqDef
<1> QED
  BY <1>2, <1>5, <1>6

(* The image of a finite set under normalisation is finite, so a policy    *)
(* has finitely many mounts.                                               *)
LEMMA MountsAreFinite ==
    ASSUME NEW pol, IsPolicy(pol)
    PROVE  IsFiniteSet(mounts(pol))
<1>1. ASSUME NEW cap \in {"fs.read", "fs.write"}
      PROVE  IsFiniteSet(mountable(pol, cap))
  <2> DEFINE V == pol[cap].values
             N == {normpath(v) : v \in V}
             f == [v \in V |-> normpath(v)]
  <2>1. IsFiniteSet(V)
    BY DEF IsPolicy, CapabilityId
  <2>2. f \in Surjection(V, N)
    BY Fun_IsSurj
  <2> HIDE DEF f, V, N
  <2>3. IsFiniteSet(N)
    BY <2>1, <2>2, FS_Surjection
  <2>4. mountable(pol, cap) \subseteq N
    BY DEF mountable, N, V
  <2> QED
    BY <2>3, <2>4, FS_Subset
<1>2. ASSUME NEW P, IsFiniteSet(P), NEW mode
      PROVE  IsFiniteSet({[path |-> p, mode |-> mode] : p \in P})
  <2> DEFINE M == {[path |-> p, mode |-> mode] : p \in P}
             f == [p \in P |-> [path |-> p, mode |-> mode]]
  <2>1. f \in Surjection(P, M)
    BY Fun_IsSurj
  <2> HIDE DEF f, M
  <2>2. IsFiniteSet(M)
    BY <1>2, <2>1, FS_Surjection
  <2> QED
    BY <2>2 DEF M
<1> DEFINE rw == {[path |-> p, mode |-> "rw"] : p \in mountable(pol, "fs.write")}
           ro == {[path |-> p, mode |-> "ro"] : p \in mountable(pol, "fs.read") \ mountable(pol, "fs.write")}
<1>3. IsFiniteSet(rw)
  BY <1>1, <1>2
<1>4. IsFiniteSet(ro)
  <2>1. IsFiniteSet(mountable(pol, "fs.read") \ mountable(pol, "fs.write"))
    BY <1>1, FS_Difference
  <2> QED
    BY <1>2, <2>1
<1>5. mounts(pol) = rw \cup ro
  BY DEF mounts
<1> HIDE DEF rw, ro
<1> QED
  BY <1>3, <1>4, <1>5, FS_Union

(* The flags a policy and its plan put into a command.                     *)
PolicyFlags(pol, env) ==
    (IF granted(pol, "net.http") THEN {} ELSE {Flag("--network", "none")}) \cup
    {Flag("-v", m) : m \in mounts(pol)} \cup {Flag("-e", v) : v \in forwarded(pol, env)}

NetFlags(pol, proxy) ==
    CASE starts_proxy(pol, proxy) -> {Flag("--add-host", "host-gateway")} \cup
                                        {Flag("-e", ProxyVars[i]) : i \in DOMAIN ProxyVars}
      [] ~ starts_proxy(pol, proxy) /\ egress_plan(pol).mode = "deny" -> {Flag("--network", "none")}
      [] OTHER -> {}

LEMMA PolicyArgs ==
    ASSUME NEW pol, IsPolicy(pol), NEW env, IsFiniteSet(forwarded(pol, env))
    PROVE  /\ translate_policy_args(pol, env) \in Seq(PolicyFlags(pol, env))
           /\ Range(translate_policy_args(pol, env)) = PolicyFlags(pol, env)
<1> DEFINE F   == PolicyFlags(pol, env)
           NF  == IF granted(pol, "net.http") THEN {} ELSE {Flag("--network", "none")}
           VF  == {Flag("-v", m) : m \in mounts(pol)}
           EF  == {Flag("-e", v) : v \in forwarded(pol, env)}
           net == IF granted(pol, "net.http") THEN << >> ELSE <<Flag("--network", "none")>>
           vs  == FlagsOf("-v", mounts(pol))
           es  == FlagsOf("-e", forwarded(pol, env))
<1>1. vs \in Seq(VF) /\ Range(vs) = VF
  BY MountsAreFinite, FlagsAreListed
<1>2. es \in Seq(EF) /\ Range(es) = EF
  BY FlagsAreListed
<1>3. net \in Seq(NF) /\ Range(net) = NF
  <2>1. CASE granted(pol, "net.http")
    BY <2>1 DEF Range
  <2>2. CASE ~ granted(pol, "net.http")
    BY <2>2 DEF Range
  <2> QED
    BY <2>1, <2>2
<1> DEFINE front == net \o vs
<1>4. translate_policy_args(pol, env) = front \o es
  BY DEF translate_policy_args
<1>5. F = (NF \cup VF) \cup EF
  BY DEF PolicyFlags
<1> HIDE DEF net, vs, es, F, NF, VF, EF
<1>6. net \in Seq(F) /\ vs \in Seq(F) /\ es \in Seq(F)
  BY <1>1, <1>2, <1>3, <1>5, SeqDef
<1>7. front \in Seq(F) /\ Range(front) = NF \cup VF
  BY <1>1, <1>3, <1>6, ConcatProperties, RangeConcatenation
<1> HIDE DEF front
<1>8. front \o es \in Seq(F) /\ Range(front \o es) = (NF \cup VF) \cup EF
  BY <1>2, <1>6, <1>7, ConcatProperties, RangeConcatenation
<1> QED
  BY <1>4, <1>5, <1>8 DEF F

LEMMA NetworkArgs ==
    ASSUME NEW pol, NEW proxy \in BOOLEAN
    PROVE  LET net == translate_network_args(egress_plan(pol), starts_proxy(pol, proxy)) IN
           /\ net \in Seq(NetFlags(pol, proxy)) /\ Range(net) = NetFlags(pol, proxy)
           /\ \A i \in DOMAIN net : net[i].flag = "--network" => i = 1
<1>1. CASE starts_proxy(pol, proxy)
  <2> DEFINE set  == [i \in DOMAIN ProxyVars |-> Flag("-e", ProxyVars[i])]
             host == <<Flag("--add-host", "host-gateway")>>
             SF   == {Flag("-e", ProxyVars[i]) : i \in DOMAIN ProxyVars}
             HF   == {Flag("--add-host", "host-gateway")}
  <2>1. translate_network_args(egress_plan(pol), starts_proxy(pol, proxy)) = set \o host
    BY <1>1 DEF translate_network_args
  <2>2. NetFlags(pol, proxy) = HF \cup SF
    BY <1>1 DEF NetFlags
  <2>3. set \in Seq(SF) /\ Range(set) = SF
    <3>1. DOMAIN ProxyVars = 1..4
      BY DEF ProxyVars
    <3> QED
      BY <3>1, SeqDef DEF Range
  <2>4. host \in Seq(HF) /\ Range(host) = HF
    BY DEF Range
  <2>5. \A a \in HF \cup SF : a.flag # "--network"
    BY DEF Flag
  <2> HIDE DEF set, host, SF, HF
  <2>6. set \in Seq(HF \cup SF) /\ host \in Seq(HF \cup SF)
    BY <2>3, <2>4, SeqDef
  <2>7. set \o host \in Seq(HF \cup SF) /\ Range(set \o host) = HF \cup SF
    BY <2>3, <2>4, <2>6, ConcatProperties, RangeConcatenation
  <2>8. \A i \in DOMAIN (set \o host) : (set \o host)[i] \in HF \cup SF
    BY <2>7 DEF Range
  <2> QED
    BY <2>1, <2>2, <2>5, <2>7, <2>8
<1>2. CASE ~ starts_proxy(pol, proxy) /\ egress_plan(pol).mode = "deny"
  BY <1>2 DEF translate_network_args, NetFlags, Range
<1>3. CASE ~ starts_proxy(pol, proxy) /\ egress_plan(pol).mode # "deny"
  BY <1>3 DEF translate_network_args, NetFlags, Range
<1> QED
  BY <1>1, <1>2, <1>3

(* What stands in the command start runs: the mounts, the variables (with  *)
(* the assignments of a proxy), and one network flag at most, there when   *)
(* the plan denies everything.                                             *)
LEMMA RunArgs ==
    ASSUME NEW pol, IsPolicy(pol), NEW env, IsFiniteSet(forwarded(pol, env)), NEW proxy \in BOOLEAN
    PROVE  LET args == run_args(pol, env, proxy) IN
           /\ {args[i].value : i \in FlagsAt(args, "-v")} = mounts(pol)
           /\ {args[i].value : i \in FlagsAt(args, "-e")} =
                 forwarded(pol, env) \cup (IF starts_proxy(pol, proxy) THEN Range(ProxyVars) ELSE {})
           /\ \A i, j \in FlagsAt(args, "--network") : i = j
           /\ FlagsAt(args, "--network") = {} <=>
                 starts_proxy(pol, proxy) \/ egress_plan(pol).mode # "deny"
<1> DEFINE P    == PolicyFlags(pol, env)
           N    == NetFlags(pol, proxy)
           E    == P \cup N
           kept == without_network_flag(translate_policy_args(pol, env))
           net  == translate_network_args(egress_plan(pol), starts_proxy(pol, proxy))
           args == kept \o net
<1>1. kept \in Seq(P) /\ Range(kept) = {a \in P : a.flag # "--network"}
  BY PolicyArgs, NetworkFlagsAreDropped
<1>2. /\ net \in Seq(N) /\ Range(net) = N
      /\ \A i \in DOMAIN net : net[i].flag = "--network" => i = 1
  BY NetworkArgs
<1>3. run_args(pol, env, proxy) = args
  BY DEF run_args
<1> HIDE DEF kept, net
<1>4. kept \in Seq(E) /\ net \in Seq(E)
  BY <1>1, <1>2, SeqDef
<1>5. /\ Len(args) = Len(kept) + Len(net) /\ args \in Seq(E) /\ Len(kept) \in Nat
      /\ \A i \in 1..Len(kept) + Len(net) :
            args[i] = IF i <= Len(kept) THEN kept[i] ELSE net[i - Len(kept)]
      /\ Range(args) = Range(kept) \cup Range(net)
  BY <1>4, ConcatProperties, RangeConcatenation, LenProperties
<1>6. \A a \in P : a.flag = "-v" => a.value \in mounts(pol)
  BY DEF PolicyFlags, Flag
<1>7. \A a \in P : a.flag = "-e" => a.value \in forwarded(pol, env)
  BY DEF PolicyFlags, Flag
<1>8. \A m \in mounts(pol) : Flag("-v", m) \in P
  BY DEF PolicyFlags
<1>9. \A v \in forwarded(pol, env) : Flag("-e", v) \in P
  BY DEF PolicyFlags
<1> DEFINE set == IF starts_proxy(pol, proxy) THEN Range(ProxyVars) ELSE {}
<1>10. /\ \A a \in N : a.flag # "-v"
       /\ \A a \in N : a.flag = "-e" => a.value \in set
       /\ \A v \in set : Flag("-e", v) \in N
       /\ (\E a \in N : a.flag = "--network") <=>
             ~ (starts_proxy(pol, proxy) \/ egress_plan(pol).mode # "deny")
  <2> DEFINE h == Flag("--add-host", "host-gateway")
             d == Flag("--network", "none")
             S == {Flag("-e", v) : v \in Range(ProxyVars)}
  <2>1. /\ h.flag = "--add-host" /\ d.flag = "--network"
        /\ \A a \in S : a.flag = "-e" /\ a.value \in Range(ProxyVars)
        /\ \A v \in Range(ProxyVars) : Flag("-e", v) \in S
    BY DEF Flag
  <2>2. {Flag("-e", ProxyVars[i]) : i \in DOMAIN ProxyVars} = S
    BY DEF Range
  <2>3. N = CASE starts_proxy(pol, proxy) -> {h} \cup S
              [] ~ starts_proxy(pol, proxy) /\ egress_plan(pol).mode = "deny" -> {d}
              [] OTHER -> {}
    BY <2>2 DEF NetFlags
  <2> HIDE DEF h, d, N, S
  <2>4. CASE starts_proxy(pol, proxy)
    BY <2>1, <2>3, <2>4
  <2>5. CASE ~ starts_proxy(pol, proxy) /\ egress_plan(pol).mode = "deny"
    BY <2>1, <2>3, <2>5
  <2>6. CASE ~ starts_proxy(pol, proxy) /\ egress_plan(pol).mode # "deny"
    BY <2>3, <2>6
  <2> QED
    BY <2>4, <2>5, <2>6
<1>11. \A f, v : Flag(f, v).flag = f /\ Flag(f, v).value = v
  BY DEF Flag
<1> HIDE DEF P, N, args, set
<1>12. DOMAIN args = 1..Len(kept) + Len(net)
  BY <1>5, LenProperties
<1>13. \A i \in DOMAIN args : args[i] \in Range(args)
  BY DEF Range
<1>14. \A a \in Range(args) : \E i \in DOMAIN args : args[i] = a
  BY DEF Range
<1>15. {args[i].value : i \in FlagsAt(args, "-v")} = mounts(pol)
  BY <1>1, <1>2, <1>5, <1>6, <1>8, <1>10, <1>11, <1>13, <1>14 DEF FlagsAt
<1>16. {args[i].value : i \in FlagsAt(args, "-e")} = forwarded(pol, env) \cup set
  <2>1. ASSUME NEW i \in FlagsAt(args, "-e") PROVE args[i].value \in forwarded(pol, env) \cup set
    <3>1. args[i] \in P \cup N /\ args[i].flag = "-e"
      BY <1>1, <1>2, <1>5, <1>13, <2>1 DEF FlagsAt
    <3> QED
      BY <1>7, <1>10, <3>1
  <2>2. ASSUME NEW v \in forwarded(pol, env) \cup set
        PROVE  \E i \in FlagsAt(args, "-e") : args[i].value = v
    <3>1. Flag("-e", v) \in Range(args)
      BY <1>1, <1>2, <1>5, <1>9, <1>10, <1>11, <2>2
    <3>2. PICK i \in DOMAIN args : args[i] = Flag("-e", v)
      BY <1>14, <3>1
    <3> QED
      BY <1>11, <3>2 DEF FlagsAt
  <2> QED
    BY <2>1, <2>2
<1>17. \A i \in FlagsAt(args, "--network") : i = Len(kept) + 1
  <2> SUFFICES ASSUME NEW i \in DOMAIN args, args[i].flag = "--network" PROVE i = Len(kept) + 1
    BY DEF FlagsAt
  <2>1. CASE i <= Len(kept)
    <3>1. i \in DOMAIN kept /\ args[i] = kept[i]
      BY <1>5, <1>12, <2>1, <1>1
    <3>2. kept[i] \in Range(kept)
      BY <3>1 DEF Range
    <3> QED
      BY <1>1, <3>1, <3>2
  <2>2. CASE ~ (i <= Len(kept))
    <3>1. i - Len(kept) \in 1..Len(net) /\ args[i] = net[i - Len(kept)]
      BY <1>4, <1>5, <1>12, <2>2, LenProperties
    <3>2. i - Len(kept) \in DOMAIN net
      BY <1>4, <3>1, LenProperties
    <3> QED
      BY <1>2, <1>5, <3>1, <3>2
  <2> QED
    BY <2>1, <2>2
<1>18. FlagsAt(args, "--network") = {} <=>
          starts_proxy(pol, proxy) \/ egress_plan(pol).mode # "deny"
  BY <1>1, <1>2, <1>5, <1>10, <1>13, <1>14 DEF FlagsAt
<1> QED
  BY <1>3, <1>15, <1>16, <1>17, <1>18 DEF set

(* One more label in front of a host is below the host.                    *)
LEMMA LabelBelow ==
    ASSUME NEW L \in HostName
    PROVE  /\ <<ALabel>> \o L \in HostName
           /\ IsSubdomain(LowerHost(<<ALabel>> \o L), LowerHost(L))
<1> DEFINE below == <<ALabel>> \o L
           n == Len(L)
           h == LowerHost(below)
           s == LowerHost(L)
<1>1. L \in Seq(Label) /\ n \in Nat /\ DOMAIN L = 1..n /\ \A i \in 1..n : L[i] \in Label
  BY DEF HostName
<1>2. /\ below \in Seq(Label) /\ Len(below) = n + 1 /\ below[1] = ALabel
      /\ \A i \in 1..n : below[i + 1] = L[i]
  <2> DEFINE a == <<ALabel>>
  <2>1. a \in Seq(Label) /\ Len(a) = 1 /\ a[1] = ALabel
    BY LabelAssumption
  <2> HIDE DEF a
  <2>2. /\ a \o L \in Seq(Label) /\ Len(a \o L) = Len(a) + Len(L)
        /\ \A i \in 1..Len(a) + Len(L) : (a \o L)[i] = IF i <= Len(a) THEN a[i] ELSE L[i - Len(a)]
    BY <1>1, <2>1, ConcatProperties
  <2> DEFINE c == a \o L
  <2>3. c \in Seq(Label) /\ Len(c) = n + 1 /\ c[1] = ALabel
    BY <1>1, <2>1, <2>2
  <2>4. \A i \in 1..n : c[i + 1] = L[i]
    <3> TAKE i \in 1..n
    <3>1. i + 1 \in 1..Len(a) + Len(L) /\ ~ (i + 1 <= Len(a)) /\ i + 1 - Len(a) = i
      BY <1>1, <2>1
    <3> HIDE DEF c
    <3> QED
      BY <2>2, <3>1 DEF c
  <2> QED
    BY <2>3, <2>4 DEF a
<1> HIDE DEF below
<1>3. DOMAIN below = 1..n + 1 /\ \A i \in 1..n + 1 : below[i] \in Label
  BY <1>1, <1>2
<1>4. h \in Seq(Label) /\ Len(h) = n + 1 /\ \A i \in 1..n + 1 : h[i] = Lower[below[i]]
  <2>1. h = [i \in 1..n + 1 |-> Lower[below[i]]]
    BY <1>3 DEF LowerHost
  <2>2. h \in [1..n + 1 -> Label]
    BY <1>3, <2>1, LowerAssumption
  <2> HIDE DEF h
  <2>3. h \in Seq(Label) /\ DOMAIN h = 1..n + 1
    BY <1>1, <2>2, SeqDef
  <2> QED
    BY <1>1, <2>1, <2>3, LenProperties
<1>5. s \in Seq(Label) /\ Len(s) = n /\ \A i \in 1..n : s[i] = Lower[L[i]]
  <2>1. s = [i \in 1..n |-> Lower[L[i]]]
    BY <1>1 DEF LowerHost
  <2>2. s \in [1..n -> Label]
    BY <1>1, <2>1, LowerAssumption
  <2> HIDE DEF s
  <2>3. s \in Seq(Label) /\ DOMAIN s = 1..n
    BY <1>1, <2>2, SeqDef
  <2> QED
    BY <1>1, <2>1, <2>3, LenProperties
<1> HIDE DEF h, s, n
<1>6. h[1] # Empty
  BY <1>1, <1>2, <1>4, LabelAssumption
<1>7. \A i \in 1..n : h[i + 1] = s[i]
  <2> TAKE i \in 1..n
  <2>1. i + 1 \in 1..n + 1 /\ below[i + 1] = L[i]
    BY <1>1, <1>2
  <2> QED
    BY <1>4, <1>5, <2>1
<1>8. IsPrefix(Reverse(s), Reverse(h))
  <2> DEFINE rs == Reverse(s)
             rh == Reverse(h)
  <2>1. rs = [i \in 1..n |-> s[(n - i) + 1]] /\ rh = [i \in 1..n + 1 |-> h[(n + 1 - i) + 1]]
    BY <1>4, <1>5 DEF Reverse
  <2>2. \A i \in 1..n : s[(n - i) + 1] \in Label
    BY <1>1, <1>5
  <2>3. \A i \in 1..n + 1 : h[(n + 1 - i) + 1] \in Label
    BY <1>1, <1>4
  <2> HIDE DEF rs, rh
  <2>4. rs \in [1..n -> Label] /\ rh \in [1..n + 1 -> Label]
    BY <2>1, <2>2, <2>3
  <2>5. rs \in Seq(Label) /\ rh \in Seq(Label) /\ Len(rs) = n /\ Len(rh) = n + 1
    BY <1>1, <2>4, SeqDef, LenProperties
  <2>6. \A i \in 1..n : rs[i] = rh[i]
    <3> TAKE i \in 1..n
    <3>1. (n - i) + 1 \in 1..n /\ (n + 1 - i) + 1 = ((n - i) + 1) + 1
      BY <1>1
    <3>2. h[((n - i) + 1) + 1] = s[(n - i) + 1]
      BY <1>7, <3>1
    <3> QED
      BY <1>1, <2>1, <3>1, <3>2
  <2>7. SubSeq(rs, 1, n) = SubSeq(rh, 1, n)
    BY <1>1, <2>5, <2>6
  <2>8. IsPrefix(rs, rh)
    BY <1>1, <2>5, <2>7 DEF IsPrefix
  <2> QED
    BY <2>8 DEF rs, rh
<1>9. IsSubdomain(h, s)
  BY <1>1, <1>4, <1>5, <1>6, <1>8 DEF IsSubdomain, IsStrictSuffix, IsSuffix
<1> QED
  BY <1>2, <1>9 DEF HostName, below, h, s

(* A container keeps a network when some host is within the policy.        *)
LEMMA NetworkWhenGranted ==
    ASSUME NEW pol, IsPolicy(pol), NEW proxy \in BOOLEAN
    PROVE  (starts_proxy(pol, proxy) \/ egress_plan(pol).mode # "deny") <=>
              \E v \in pol["net.http"].values : \E h \in {v.labels, <<ALabel>> \o v.labels} :
                 PolicyGrants(pol, "net.http", h)
<1> DEFINE V == pol["net.http"].values
           within == \E v \in V : \E h \in {v.labels, <<ALabel>> \o v.labels} :
                        PolicyGrants(pol, "net.http", h)
<1>1. (starts_proxy(pol, proxy) \/ egress_plan(pol).mode # "deny") <=>
         granted(pol, "net.http") /\ V # {}
  BY DEF starts_proxy, egress_plan
<1>2. within => granted(pol, "net.http") /\ V # {}
  BY DEF PolicyGrants
<1>3. ASSUME granted(pol, "net.http"), NEW v \in V PROVE within
  <2>1. v \in Pattern
    BY DEF IsPolicy, ValueSet, CapabilityId
  <2>2. \A h : host_matches(h, V) => PolicyGrants(pol, "net.http", h)
    BY <1>3 DEF PolicyGrants, value_matches
  <2>3. CASE v.wild = "any"
    <3>1. host_matches(v.labels, V)
      BY <2>3 DEF host_matches
    <3> QED
      BY <2>2, <3>1
  <2>4. CASE v.wild = "none"
    <3>1. host_matches(v.labels, V)
      BY <2>4 DEF host_matches
    <3> QED
      BY <2>2, <3>1
  <2>5. CASE v.wild = "suffix"
    <3>1. v.labels \in HostName
      BY <2>1, <2>5 DEF Pattern
    <3>2. IsSubdomain(LowerHost(<<ALabel>> \o v.labels), LowerHost(v.labels))
      BY <3>1, LabelBelow
    <3>3. host_matches(<<ALabel>> \o v.labels, V)
      BY <2>5, <3>2 DEF host_matches
    <3> QED
      BY <2>2, <3>3
  <2> QED
    BY <2>1, <2>3, <2>4, <2>5 DEF Pattern
<1> QED
  BY <1>1, <1>2, <1>3

(* The variables that reach a server are granted ones.                     *)
LEMMA VariablesAreGranted ==
    ASSUME NEW pol, IsPolicy(pol), NEW host
    PROVE  /\ IsFiniteSet(forwarded(pol, {}))
           /\ IsFiniteSet(forwarded(pol, run_env(pol, host)))
           /\ \A v \in forwarded(pol, run_env(pol, host)) : PolicyGrants(pol, "env", v)
           /\ \A v \in host : v \in forwarded(pol, fleet_env(pol, host)) <=> PolicyGrants(pol, "env", v)
<1>1. IsFiniteSet(pol["env"].values)
  BY DEF IsPolicy, CapabilityId
<1>2. /\ forwarded(pol, {}) \subseteq pol["env"].values
      /\ forwarded(pol, run_env(pol, host)) \subseteq pol["env"].values
  BY DEF forwarded, run_env
<1>3. \A v \in forwarded(pol, run_env(pol, host)) : PolicyGrants(pol, "env", v)
  BY DEF forwarded, run_env, PolicyGrants, value_matches
<1>4. \A v \in host : v \in forwarded(pol, fleet_env(pol, host)) <=> PolicyGrants(pol, "env", v)
  BY DEF forwarded, fleet_env, PolicyGrants, value_matches
<1> QED
  BY <1>1, <1>2, <1>3, <1>4, FS_Subset

(* On rooted values a storage class grants what lies under its mounts.     *)
LEMMA GrantIsUnderMount ==
    ASSUME NEW pol, IsPolicy(pol), NEW cap \in {"fs.read", "fs.write"},
           \A v \in granted_values(pol, cap) : v.slashes = 1,
           NEW p \in Path, p.slashes = 1, normpath(p) = p
    PROVE  PolicyGrants(pol, cap, p) <=> \E q \in mountable(pol, cap) : UnderPrefix(p, q)
<1>1. CASE ~ granted(pol, cap)
  BY <1>1 DEF PolicyGrants, mountable
<1>2. CASE granted(pol, cap)
  <2> DEFINE V == pol[cap].values
  <2>1. \A v \in V : v \in Path /\ v.slashes = 1
    BY <1>2 DEF granted_values, IsPolicy, ValueSet, CapabilityId
  <2>2. \A v \in V : normpath(v).slashes = 1
    BY <2>1 DEF normpath
  <2>3. mountable(pol, cap) = {normpath(v) : v \in V}
    BY <1>2, <2>2 DEF mountable
  <2>4. PolicyGrants(pol, cap, p) <=> V # {} /\ path_matches(p, V)
    BY <1>2 DEF PolicyGrants, value_matches
  <2>5. path_matches(p, V) <=> \E v \in V : UnderPrefix(p, normpath(v))
    BY DEF path_matches
  <2> QED
    BY <2>3, <2>4, <2>5
<1> QED
  BY <1>1, <1>2

(* Among the mounts above a path there is a deepest one.                   *)
LEMMA DeepestMount ==
    ASSUME NEW args, NEW p \in Path,
           \A m \in MountsAbove(args, p) : m.path \in Path, Readable(args, p)
    PROVE  SeenThrough(args, p) \in MountsAbove(args, p)
<1> DEFINE M == MountsAbove(args, p)
           depth(m) == Len(m.path.comps) + 1
           T == {depth(m) : m \in M}
           n == Len(p.comps) + 1
<1>1. n \in Nat /\ Len(p.comps) \in Nat
  BY DEF Path
<1>2. ASSUME NEW m \in M PROVE depth(m) \in 1..n /\ Len(m.path.comps) \in Nat
  <2>1. UnderPrefix(p, m.path) /\ m.path \in Path
    BY DEF MountsAbove
  <2>2. Len(m.path.comps) \in Nat
    BY <2>1 DEF Path
  <2>3. Len(m.path.comps) <= Len(p.comps)
    <3>1. CASE p = m.path
      BY <1>1, <3>1
    <3>2. CASE m.path.comps = << >>
      BY <1>1, <3>2
    <3>3. CASE IsPrefix(m.path.comps, p.comps)
      BY <3>3 DEF IsPrefix
    <3> QED
      BY <2>1, <3>1, <3>2, <3>3 DEF UnderPrefix
  <2> QED
    BY <1>1, <2>2, <2>3
<1>3. T \in SUBSET (1..n) /\ T # {}
  BY <1>2 DEF Readable
<1> HIDE DEF n
<1>4. PICK j \in T : \A i \in T : i <= j
  BY <1>1, <1>3, GreatestMember
<1>5. PICK m \in M : j = depth(m)
  BY <1>4
<1>6. \A k \in M : Len(k.path.comps) <= Len(m.path.comps)
  <2> TAKE k \in M
  <2>1. depth(k) <= depth(m)
    BY <1>4, <1>5
  <2> QED
    BY <1>2, <2>1
<1> QED
  BY <1>5, <1>6 DEF SeenThrough

(* What a sandbox may read and write is what the monitor lets it.          *)
LEMMA MountsMatchGrants ==
    ASSUME NEW pol, IsPolicy(pol), NEW args,
           {args[i].value : i \in FlagsAt(args, "-v")} = mounts(pol),
           \A c \in {"fs.read", "fs.write"} : \A v \in granted_values(pol, c) : v.slashes = 1,
           NEW p \in Path, p.slashes = 1, normpath(p) = p
    PROVE  /\ Writable(args, p) => PolicyGrants(pol, "fs.write", p)
           /\ Readable(args, p) <=> \E c \in {"fs.read", "fs.write"} : PolicyGrants(pol, c, p)
           /\ PolicyGrants(pol, "fs.write", p) /\ ~ Writable(args, p) =>
                 /\ PolicyGrants(pol, "fs.read", p)
                 /\ SeenThrough(args, p).path \notin mountable(pol, "fs.write")
<1> DEFINE M == MountsAbove(args, p)
           W == mountable(pol, "fs.write")
           R == mountable(pol, "fs.read")
           deepest == SeenThrough(args, p)
<1>1. M = {m \in mounts(pol) : UnderPrefix(p, m.path)}
  BY DEF MountsAbove, FlagsAt
<1>2. \A m \in mounts(pol) : \/ m.mode = "rw" /\ m.path \in W
                             \/ m.mode = "ro" /\ m.path \in R \ W
  BY DEF mounts
<1>3. \A q \in W \cup R : \E m \in mounts(pol) : m.path = q
  <2>1. \A q \in W : [path |-> q, mode |-> "rw"] \in mounts(pol)
    BY DEF mounts
  <2>2. \A q \in R \ W : [path |-> q, mode |-> "ro"] \in mounts(pol)
    BY DEF mounts
  <2>3. \A q, d : [path |-> q, mode |-> d].path = q
    OBVIOUS
  <2> SUFFICES ASSUME NEW q \in W \cup R PROVE \E m \in mounts(pol) : m.path = q
    OBVIOUS
  <2>4. PICK d \in {"rw", "ro"} : [path |-> q, mode |-> d] \in mounts(pol)
    BY <2>1, <2>2
  <2> WITNESS [path |-> q, mode |-> d] \in mounts(pol)
  <2> QED
    BY <2>3
<1>4. PolicyGrants(pol, "fs.write", p) <=> \E q \in W : UnderPrefix(p, q)
  BY GrantIsUnderMount
<1>5. PolicyGrants(pol, "fs.read", p) <=> \E q \in R : UnderPrefix(p, q)
  BY GrantIsUnderMount
<1>6. W \cup R \subseteq Path
  <2> SUFFICES ASSUME NEW c \in {"fs.read", "fs.write"} PROVE mountable(pol, c) \subseteq Path
    OBVIOUS
  <2>1. \A v \in granted_values(pol, c) : v \in Path
    BY DEF granted_values, IsPolicy, ValueSet, CapabilityId
  <2>2. \A v \in granted_values(pol, c) : normpath(v) \in Path
    BY <2>1, NormalisedOnce
  <2> QED
    BY <2>2 DEF mountable, granted_values
<1> HIDE DEF M, W, R, deepest
<1>7. Readable(args, p) <=> \E c \in {"fs.read", "fs.write"} : PolicyGrants(pol, c, p)
  <2>1. Readable(args, p) <=> M # {}
    BY DEF Readable, M
  <2>2. M # {} <=> \E q \in W \cup R : UnderPrefix(p, q)
    BY <1>1, <1>2, <1>3
  <2> QED
    BY <1>4, <1>5, <2>1, <2>2
<1>8. Readable(args, p) => deepest \in mounts(pol) /\ UnderPrefix(p, deepest.path)
  <2>1. \A m \in M : m.path \in Path
    BY <1>1, <1>2, <1>6
  <2>2. Readable(args, p) => deepest \in M
    BY <2>1, DeepestMount DEF M, deepest
  <2> QED
    BY <1>1, <2>2
<1>9. Writable(args, p) <=> Readable(args, p) /\ deepest.mode = "rw"
  BY DEF Writable, deepest
<1>10. Writable(args, p) => PolicyGrants(pol, "fs.write", p)
  BY <1>2, <1>4, <1>8, <1>9
<1>11. PolicyGrants(pol, "fs.write", p) /\ ~ Writable(args, p) =>
          PolicyGrants(pol, "fs.read", p) /\ deepest.path \notin W
  BY <1>2, <1>5, <1>7, <1>8, <1>9
<1> QED
  BY <1>7, <1>10, <1>11 DEF W, deepest

(* The sandbox is cut out of the same grants the monitor judges by.        *)
(* (translate_policy_args, translate_network_args, to_server_spec)         *)
THEOREM SandboxIsTheGrant == Spec => []SandboxMatchesPolicy
<1>1. IInv => SandboxMatchesPolicy
  <2> SUFFICES ASSUME IInv PROVE SandboxMatchesPolicy
    OBVIOUS
  <2> DEFINE args == run_args(policy, run_env(policy, HostEnv), FALSE)
             m    == event_capability(event)
             path == normpath(m.value)
  <2>1. IsPolicy(policy)
    BY DEF IInv
  <2>2. /\ {args[i].value : i \in FlagsAt(args, "-v")} = mounts(policy)
        /\ {args[i].value : i \in FlagsAt(args, "-e")} = forwarded(policy, run_env(policy, HostEnv))
    <3>1. IsFiniteSet(forwarded(policy, run_env(policy, HostEnv)))
      BY <2>1, VariablesAreGranted
    <3>2. ~ starts_proxy(policy, FALSE)
      BY DEF starts_proxy
    <3> DEFINE env == run_env(policy, HostEnv)
               set == IF starts_proxy(policy, FALSE) THEN Range(ProxyVars) ELSE {}
    <3> HIDE DEF env, set
    <3>3. /\ {run_args(policy, env, FALSE)[i].value : i \in FlagsAt(run_args(policy, env, FALSE), "-v")} =
                mounts(policy)
          /\ {run_args(policy, env, FALSE)[i].value : i \in FlagsAt(run_args(policy, env, FALSE), "-e")} =
                forwarded(policy, env) \cup set
      BY <2>1, <3>1, RunArgs DEF env, set
    <3>4. set = {}
      BY <3>2 DEF set
    <3> QED
      BY <3>3, <3>4 DEF env
  <2>3. ASSUME NEW proxy \in BOOLEAN
        PROVE  LET network == FlagsAt(run_args(policy, {}, proxy), "--network") IN
               /\ \A i, j \in network : i = j
               /\ network = {} <=>
                     \E v \in policy["net.http"].values : \E h \in {v.labels, <<ALabel>> \o v.labels} :
                        PolicyGrants(policy, "net.http", h)
    <3>1. IsFiniteSet(forwarded(policy, {}))
      BY <2>1, VariablesAreGranted
    <3>2. /\ \A i, j \in FlagsAt(run_args(policy, {}, proxy), "--network") : i = j
          /\ FlagsAt(run_args(policy, {}, proxy), "--network") = {} <=>
                starts_proxy(policy, proxy) \/ egress_plan(policy).mode # "deny"
      BY <2>1, <3>1, RunArgs
    <3> QED
      BY <2>1, <3>2, NetworkWhenGranted
  <2>4. ASSUME m.cap \in {"fs.read", "fs.write"}, path.slashes = 1
        PROVE  path \in Path /\ normpath(path) = path
    <3>1. event.kind = "fs.open" /\ m.value = event.path
      BY <2>4 DEF event_capability, NoCap
    <3>2. event.path \in Path
      BY <3>1 DEF IInv, Event
    <3>3. event.path.slashes = 1
      BY <2>4, <3>1 DEF normpath
    <3> QED
      BY <3>1, <3>2, <3>3, NormalisedOnce
  <2>5. ASSUME m.cap \in {"fs.read", "fs.write"}, path.slashes = 1,
               \A c \in {"fs.read", "fs.write"} : \A v \in granted_values(policy, c) : v.slashes = 1
        PROVE  /\ Writable(args, path) => PolicyGrants(policy, "fs.write", path)
               /\ Readable(args, path) <=> \E c \in {"fs.read", "fs.write"} :
                                              PolicyGrants(policy, c, path)
               /\ PolicyGrants(policy, "fs.write", path) /\ ~ Writable(args, path) =>
                     /\ PolicyGrants(policy, "fs.read", path)
                     /\ SeenThrough(args, path).path \notin mountable(policy, "fs.write")
    <3> HIDE DEF args, m, path
    <3> QED
      BY <2>1, <2>2, <2>4, <2>5, MountsMatchGrants
  <2>6. ASSUME NEW v \in HostEnv
        PROVE  /\ (\E i \in FlagsAt(args, "-e") : args[i].value = v) => PolicyGrants(policy, "env", v)
               /\ v \in forwarded(policy, fleet_env(policy, HostEnv)) <=> PolicyGrants(policy, "env", v)
    <3> HIDE DEF args
    <3> QED
      BY <2>1, <2>2, VariablesAreGranted
  <2> QED
    BY <2>3, <2>5, <2>6 DEF SandboxMatchesPolicy
<1> QED
  BY <1>1, Invariance, PTL
=============================================================================
