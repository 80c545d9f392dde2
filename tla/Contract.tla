------------------------------ MODULE Contract ------------------------------
(***************************************************************************)
(* The pure decision rules of the behaviour contract: how one runtime      *)
(* event is mapped to a capability, how an observed value matches a        *)
(* granted value, the three-bucket classification (bcm/diff.py), the       *)
(* capabilities a manifest implies (bcm/contract.py) and the egress plan   *)
(* the proxy enforces (proxy/plan.py, EgressProxy.allowed).                *)
(*                                                                         *)
(* Data.  A host name is the sequence of its labels, the text between the  *)
(* dots; a path is the number of its leading slashes (POSIX keeps two) and *)
(* the sequence of its components.  The lists of the code whose order and  *)
(* repetitions no decision reads are sets.                                 *)
(***************************************************************************)
EXTENDS Naturals, FiniteSets, SequencesExt

CONSTANTS Label,        \* the labels host names are made of
          Lower         \* str.lower on a label

ASSUME LowerAssumption ==
    /\ Lower \in [Label -> Label]
    /\ \A l \in Label : Lower[Lower[l]] = Lower[l]

Empty == ""                         \* the empty label, component or name
HostName == Seq(Label)

CapabilityId == {"net.http", "fs.read", "fs.write", "proc.exec", "env"}
EventClass   == {"within_policy", "within_manifest", "outside_contract"}
NoCap        == "none"

-----------------------------------------------------------------------------
(* Host patterns: exact, "*.suffix" or "*".                                *)

Pattern  == [wild : {"none", "suffix"}, labels : HostName] \cup
            [wild : {"any"}, labels : {<< >>}]
AnyHost  == [wild |-> "any", labels |-> << >>]

LowerHost(h) == [i \in DOMAIN h |-> Lower[h[i]]]

(* h.endswith("." + suffix) with something in front of that dot.           *)
IsSubdomain(h, suffix) ==
    /\ IsStrictSuffix(suffix, h)
    /\ ~ (Len(h) = Len(suffix) + 1 /\ h[1] = Empty)

host_matches(host, patterns) ==
    \E p \in patterns :
        \/ p.wild = "any"
        \/ p.wild = "suffix" /\ IsSubdomain(LowerHost(host), LowerHost(p.labels))
        \/ p.wild = "none"   /\ LowerHost(host) = LowerHost(p.labels)

-----------------------------------------------------------------------------
(* Paths.  posixpath.normpath drops empty and "." components and lets ".." *)
(* remove the component before it, or vanish at the root.                  *)

NormStep(rooted, done, c) ==
    IF c \in {Empty, "."} THEN done
    ELSE IF c = ".." /\ done # << >> /\ Last(done) # ".." THEN Front(done)
    ELSE IF c = ".." /\ done = << >> /\ rooted THEN done
    ELSE Append(done, c)

normpath(p) ==
    LET done[k \in 0..Len(p.comps)] == IF k = 0 THEN << >>
                                      ELSE NormStep(p.slashes > 0, done[k - 1], p.comps[k])
    IN  [slashes |-> p.slashes, comps |-> done[Len(p.comps)]]

(* On normalised paths: equal, or path.startswith(prefix + "/").  A prefix *)
(* without components is ".", "/" or "//": only "/" contains anything, and *)
(* it contains every path that starts with a slash.                        *)
UnderPrefix(path, prefix) ==
    \/ path = prefix
    \/ prefix.comps = << >> /\ prefix.slashes = 1 /\ path.slashes > 0
    \/ /\ prefix.comps # << >>
       /\ path.slashes = prefix.slashes
       /\ IsPrefix(prefix.comps, path.comps)

(* Mutant: only the prefix is normalised.                                  *)
path_matches_raw(path, prefixes) ==
    \E q \in prefixes : UnderPrefix(path, normpath(q))

path_matches(path, prefixes) ==
    \E q \in prefixes : UnderPrefix(normpath(path), normpath(q))

-----------------------------------------------------------------------------
(* Events.  detail.get(...) of an absent key is the empty value, and the   *)
(* mode of fs.open is the set of its letters.                              *)

FirstOr(s, default) == IF s # << >> THEN s[1] ELSE default

event_capability(e) ==
    CASE e.kind = "net.connect" ->
            [cap |-> "net.http", value |-> IF e.host # <<Empty>> THEN e.host ELSE e.ip]
      [] e.kind = "fs.open" ->
            [cap   |-> IF "r" \in e.mode /\ e.mode \subseteq {"r", "b", "t"}
                         THEN "fs.read" ELSE "fs.write",
             value |-> e.path]
      [] e.kind = "proc.spawn" ->
            [cap   |-> "proc.exec",      \* the program, a component sequence
             value |-> Last(FirstOr(e.argv, FirstOr(e.cmd, <<Empty>>)))]
      [] e.kind = "env.read" -> [cap |-> "env", value |-> e.var]
      [] OTHER -> [cap |-> NoCap, value |-> Empty]

(* The wildcard as it is written among the values of each class.           *)
StarOf(cap) ==
    CASE cap = "net.http" -> AnyHost
      [] cap \in {"fs.read", "fs.write"} -> [slashes |-> 0, comps |-> <<"*">>]
      [] OTHER -> "*"

value_matches(cap, value, values) ==
    CASE cap = "net.http"                -> host_matches(value, values)
      [] cap \in {"fs.read", "fs.write"} -> path_matches(value, values)
      [] cap = "env"                     -> "*" \in values \/ value \in values
      [] OTHER                           -> value \in values

-----------------------------------------------------------------------------
(* Classification.  A policy gives each class a status and a value set     *)
(* (a class it does not list reads as denied); the implied capabilities    *)
(* give each class a presence and a value set.                             *)

granted(policy, cap) == policy[cap].status = "inferred"

PolicyGrants(policy, cap, value) ==
    /\ granted(policy, cap)
    /\ IF policy[cap].values # {} THEN value_matches(cap, value, policy[cap].values)
                                  ELSE cap = "proc.exec"

ManifestImplies(implied, cap, value) ==
    /\ implied[cap].present
    /\ \/ implied[cap].values = {}
       \/ StarOf(cap) \in implied[cap].values
       \/ value_matches(cap, value, implied[cap].values)

classify_event(e, policy, implied) ==
    LET m == event_capability(e) IN
    CASE m.cap = NoCap                            -> "within_policy"
      [] m.cap # NoCap /\ PolicyGrants(policy, m.cap, m.value) -> "within_policy"
      [] m.cap # NoCap /\ ~ PolicyGrants(policy, m.cap, m.value)
           /\ ManifestImplies(implied, m.cap, m.value) -> "within_manifest"
      [] OTHER                                    -> "outside_contract"

(* The manifest-implied union.  signals[cap] is the set of classifier      *)
(* signals the tools raise for a class, [status, values].                  *)
ScopeUnknown(cap, s) == s.values = {} \/ StarOf(cap) \in s.values

Concrete(cap, sigs) == (UNION {s.values : s \in sigs}) \ {StarOf(cap)}

(* Mutant: a scope-unknown signal leaves the concrete values as they are.  *)
ImpliedValuesKept(cap, sigs) ==
    IF cap = "net.http" /\ \E s \in sigs : ScopeUnknown(cap, s)
      THEN Concrete(cap, sigs) \cup {AnyHost} ELSE Concrete(cap, sigs)

(* Mutant: "*" is dropped for net.http as it is for the other classes.     *)
ImpliedValuesNoStar(cap, sigs) ==
    IF cap # "net.http" /\ \E s \in sigs : ScopeUnknown(cap, s)
      THEN {} ELSE Concrete(cap, sigs)

ImpliedValues(cap, sigs) ==
    IF \E s \in sigs : ScopeUnknown(cap, s)
      THEN IF cap = "net.http" THEN Concrete(cap, sigs) \cup {AnyHost} ELSE {}
      ELSE Concrete(cap, sigs)

manifest_implied_caps(signals) ==
    [cap \in CapabilityId |->
        [present |-> signals[cap] # {}, values |-> ImpliedValues(cap, signals[cap])]]

-----------------------------------------------------------------------------
(* The egress plan distilled from the net.http grant, and the decision the *)
(* proxy takes under it.                                                   *)

(* Mutant: a grant without values opens the class, as it does for exec.    *)
egress_plan_empty_opens(policy) ==
    LET values == policy["net.http"].values IN
    IF ~ granted(policy, "net.http") THEN [mode |-> "deny", hosts |-> {}]
    ELSE IF values = {} \/ AnyHost \in values THEN [mode |-> "open", hosts |-> {}]
    ELSE [mode |-> "allowlist", hosts |-> values]

egress_plan(policy) ==
    LET values == policy["net.http"].values IN
    IF ~ granted(policy, "net.http") \/ values = {} THEN [mode |-> "deny", hosts |-> {}]
    ELSE IF AnyHost \in values THEN [mode |-> "open", hosts |-> {}]
    ELSE [mode |-> "allowlist", hosts |-> values]

allowed(plan, host) ==
    CASE plan.mode = "open" -> TRUE
      [] plan.mode = "deny" -> FALSE
      [] OTHER              -> host_matches(host, plan.hosts)
=============================================================================
