----------------------------- MODULE Decisions ------------------------------
(***************************************************************************)
(* The decisions taken about one event: a case is the event, a policy, the *)
(* tools of a manifest or the signals they raise, and the suggestions of   *)
(* an LLM.  Classify decides it, Grow republishes the manifest with one    *)
(* more signal, or one more tool, and decides again.                       *)
(***************************************************************************)
EXTENDS Inference, Classifier, PolicyIO, Launch

CONSTANTS Case,         \* [event, policy, tools, given, llm]
          NewSignal,    \* class -> the signals a new manifest may add
          NewTool,      \* the tools it may add
          GrowthBound,  \* bound of the model: signals per class, and tools
          HostEnv,      \* the variables of the host
          ALabel        \* any label that is not empty

(* What cases are made of.  The paths in a description start with "/" or   *)
(* "./" (_PATH_RE), a dotted name has labels (_HOSTNAME_RE).               *)
Path  == [slashes : 0..2, comps : Seq(STRING)]
Event == [kind : {"net.connect"}, host : HostName, ip : HostName] \cup
         [kind : {"fs.open"}, path : Path, mode : SUBSET STRING] \cup
         [kind : {"proc.spawn"}, argv : Seq(Seq(STRING)), cmd : Seq(Seq(STRING))] \cup
         [kind : {"env.read", "mcp.call", "syscall"}, var : STRING]

ValueSet == [cap \in CapabilityId |->
    CASE cap = "net.http"                -> Pattern
      [] cap \in {"fs.read", "fs.write"} -> Path
      [] OTHER                           -> STRING]

IsPolicy(p) ==
    /\ p = [cap \in CapabilityId |-> p[cap]]
    /\ \A cap \in CapabilityId :
          /\ p[cap] \in [status : {"inferred", "needs_review", "denied"},
                         values : SUBSET ValueSet[cap]]
          /\ IsFiniteSet(p[cap].values)

Literal == {p \in Path : p.slashes > 0 \/ Len(p.comps) > 1}

ToolType == [name : SUBSET STRING, words : SUBSET STRING, url_words : SUBSET STRING,
             urls : SUBSET Pattern, literals : SUBSET HostName,
             paths : SUBSET [path : Literal, route : BOOLEAN],
             params : SUBSET [net : BOOLEAN, uri : BOOLEAN, fs : BOOLEAN],
             vars : SUBSET STRING]

ASSUME CaseAssumption ==
    /\ \A c \in Case : /\ c.event \in Event /\ IsPolicy(c.policy) /\ c.tools \subseteq ToolType
                       /\ DOMAIN c.given = CapabilityId
    /\ NewTool \subseteq ToolType

ASSUME LabelAssumption == ALabel \in Label /\ Lower[ALabel] # Empty

VARIABLES event, policy, tools, signals, llm, verdict
vars == <<event, policy, tools, signals, llm, verdict>>

-----------------------------------------------------------------------------
Init ==
    /\ verdict = "none"
    /\ \E c \in Case :
          /\ event = c.event /\ policy = c.policy /\ tools = c.tools /\ llm = c.llm
          /\ signals = IF c.tools = {} THEN c.given ELSE manifest_signals(c.tools)

Verdict(s) == classify_event(event, policy, manifest_implied_caps(s))

Classify ==
    /\ verdict = "none"
    /\ verdict' = Verdict(signals)
    /\ UNCHANGED <<event, policy, tools, signals, llm>>

Grow ==
    /\ verdict # "none" /\ tools = {}
    /\ \E cap \in CapabilityId : \E s \in NewSignal[cap] :
          /\ signals[cap] # {} /\ Cardinality(signals[cap]) < GrowthBound
          /\ signals' = [signals EXCEPT ![cap] = @ \cup {s}]
    /\ verdict' = Verdict(signals')
    /\ UNCHANGED <<event, policy, tools, llm>>

GrowTool ==
    /\ verdict # "none" /\ tools # {} /\ Cardinality(tools) < GrowthBound
    /\ \E t \in NewTool : tools' = tools \cup {t}
    /\ signals' = manifest_signals(tools')
    /\ verdict' = Verdict(signals')
    /\ UNCHANGED <<event, policy, llm>>

Next == Classify \/ Grow \/ GrowTool
Spec == Init /\ [][Next]_vars

-----------------------------------------------------------------------------
(* Properties *)

NoOverrides == [c \in CapabilityId |-> NoOverride]

(* The proxy lets a host out exactly when the monitor files the event the  *)
(* proxy emits for it under within_policy: enforcement and classification  *)
(* never disagree, whatever the policy (server.py reuses host_matches, and *)
(* egress_plan repeats the empty-values and "*" rules of classify_event).  *)
ProxyAgreesWithMonitor ==
    event.kind = "net.connect" =>
      LET host == LowerHost(event_capability(event).value) IN
        allowed(egress_plan(policy), host) <=>
        classify_event([event EXCEPT !.host = host, !.ip = <<Empty>>], policy,
                       manifest_implied_caps(signals)) = "within_policy"

(* Whatever a freshly inferred policy grants, the manifest implies: taking *)
(* every grant away can turn a within_policy event into a review item, but *)
(* never into a violation (infer_policy and manifest_implied_caps merge    *)
(* the same signals by two separately written rules).                      *)
GrantsAreImplied ==
    LET m == event_capability(event) IN
    m.cap # NoCap /\ PolicyGrants(infer_policy(signals, llm, NoOverrides), m.cap, m.value)
       => ManifestImplies(manifest_implied_caps(signals), m.cap, m.value)

(* A freshly inferred policy grants what the tools spell out and nothing   *)
(* else, whatever an LLM suggests: never exec, even if a rule were sure of *)
(* it, and never env; the net class only when no tool leaves the endpoint  *)
(* to its caller or has a dotted name that no URL and no table confirms,   *)
(* and then exactly the hosts written; a storage class exactly the paths   *)
(* written in the tools that raise it.  (classifier.py: "a rule emits      *)
(* `inferred` only when the scope is concretely known"; a URL whose host   *)
(* is "*" counts as written.)                                              *)
GrantsAreLiteral ==
    LET p == infer_policy(signals, llm, NoOverrides)
        raise(cap) == {t \in tools : classify_fs(t, cap) # {}}
    IN  /\ ~ granted(p, "proc.exec")
        /\ tools # {} =>
          /\ ~ granted(p, "env")
          /\ granted(p, "net.http") =>
                /\ \A t \in tools : ~ takes_endpoint(t)
                /\ \A t \in tools : \A l \in t.literals :
                      \/ Last(LowerHost(l)) \in FileExtension \cup KnownTld
                      \/ [wild |-> "none", labels |-> LowerHost(l)] \in url_hosts(t)
                /\ p["net.http"].values # {}
                /\ p["net.http"].values =
                      UNION {url_hosts(t) \cup
                             {[wild |-> "none", labels |-> h] : h \in candidates(t)} : t \in tools}
          /\ \A cap \in {"fs.read", "fs.write"} : granted(p, cap) =>
                /\ \A t \in raise(cap) : path_literals(t) # {} /\ cap \in directions(t)
                /\ p[cap].values = UNION {path_literals(t) : t \in raise(cap)}

(* A path is granted only from a tool the network rule has nothing to say  *)
(* about: in front of an API, "/..." is a route (_net_context repeats the  *)
(* signals of _classify_net).  A parameter that is a URI by its schema     *)
(* format alone is the one signal _net_context leaves out.                 *)
RoutesAreNoPaths ==
    \A t \in tools : \A cap \in {"fs.read", "fs.write"} :
      (\E s \in classify_fs(t, cap) : s.status = "inferred") =>
        classify_net([t EXCEPT !.params = {[p EXCEPT !.uri = FALSE] : p \in @}]) = {}

(* Reference for path_matches under an absolute prefix: replay the path    *)
(* from the root one component at a time; the path is inside the prefix    *)
(* when the directory reached extends the directory of the prefix.  A path *)
(* with two leading slashes names another root.                            *)
WalkStep(dir, c) ==
    CASE c \in {Empty, "."}        -> dir
      [] c = ".." /\ dir = << >>   -> dir
      [] c = ".." /\ dir # << >>   -> Front(dir)
      [] OTHER                     -> Append(dir, c)

Walk(comps) ==
    LET dir[k \in 0..Len(comps)] == IF k = 0 THEN << >> ELSE WalkStep(dir[k - 1], comps[k])
    IN  dir[Len(comps)]

PathMatchIsContainment ==
    event.kind = "fs.open" /\ event.path.slashes > 0 =>
      \A q \in {q \in policy["fs.read"].values : q.slashes = 1} :
        LET at == Walk(event.path.comps)
            in == Walk(q.comps)
        IN  path_matches(event.path, {q}) <=>
              \/ event.path.slashes = 1 /\ IsPrefix(in, at)
              \/ event.path.slashes = 2 /\ in = << >>

(* No host and no variable is the empty name, which the schema check       *)
(* refuses and the import drops.                                           *)
HasNames(p) ==
    /\ EmptyHost \notin p["net.http"].values
    /\ Empty \notin p["env"].values

(* The strict projection passes the repository's own schema check, and a   *)
(* consumer that reads it back grants the same events: nothing is widened, *)
(* and only proc.exec, a bare env "*" and a class without values are lost. *)
(* Empty names are left aside, and storage paths with a trailing glob: the *)
(* monitor takes "*" as a name, policy-mcp as a wildcard (io.py            *)
(* _permissions_block and _import_foreign, conformance.py: three separate  *)
(* translations).                                                          *)
BaseIsFaithful ==
    Emits(policy) =>
      LET m   == event_capability(event)
          doc == policy_to_policy_mcp_base(policy)
          q   == load_policy(doc).policy
      IN  /\ HasNames(policy) => policy_mcp_base_conforms(doc.permissions)
          /\ /\ HasNames(policy) /\ m.cap # NoCap
             /\ \A c \in {"fs.read", "fs.write"} : \A p \in policy[c].values :
                   storage_uri_to_prefix(p) = p
             => (PolicyGrants(q, m.cap, m.value) <=>
                   /\ PolicyGrants(policy, m.cap, m.value)
                   /\ m.cap # "proc.exec"
                   /\ m.cap = "env" => m.value \in policy["env"].values \ {"*"})

(* What a reviewer may do to the capabilities of a dumped policy: nothing, *)
(* flip a status, append an entry, replace an entry's list by a scalar,    *)
(* delete an entry.                                                        *)
Edited(caps) ==
    {caps} \cup
    {[caps EXCEPT ![i].status = st] : i \in DOMAIN caps, st \in {"inferred", "denied"}} \cup
    {Append(caps, [caps[i] EXCEPT !.status = st]) : i \in DOMAIN caps, st \in {"inferred", "denied"}} \cup
    {[caps EXCEPT ![i].list = FALSE] : i \in DOMAIN caps} \cup
    {RemoveAt(caps, i) : i \in DOMAIN caps}

(* The approval seam: an edited policy is refused, or every class reads as *)
(* each entry for it says and a class without an entry is not granted; it  *)
(* stays bound to its manifest.  Without its extension block it may grant  *)
(* what the reviewer took away, from the permissions block that no edit    *)
(* refreshes, but then it passes no gate (io.py _load_caps, load_policy).  *)
EditsAreHonoured ==
    Emits(policy) =>
      LET doc == policy_to_dict(policy, "bound") IN
      \A caps \in Edited(doc.ext[1].caps) :
        LET edited == [doc EXCEPT !.ext[1].caps = caps]
            loaded == load_policy(edited)
        IN  /\ caps = doc.ext[1].caps => loaded.policy = policy
            /\ loaded = Rejected \/
                 /\ verify_manifest_hash(loaded, "bound")
                 /\ \A i \in DOMAIN caps :
                       caps[i].list /\ loaded.policy[caps[i].id] =
                                        [status |-> caps[i].status, values |-> caps[i].values]
                 /\ \A c \in CapabilityId : granted(loaded.policy, c) =>
                       \E i \in DOMAIN caps : caps[i].id = c
            /\ ~ verify_manifest_hash(load_policy([edited EXCEPT !.ext = << >>]), "bound")

(* Where a flag stands in a command.                                       *)
FlagsAt(args, f) == {i \in DOMAIN args : args[i].flag = f}

(* The sandbox is cut out of the same grants the monitor judges by.  There *)
(* is one network flag at most, and the container has no network exactly   *)
(* when no host is within the policy, neither one it names nor one below.  *)
(* What it may write, the monitor lets it write, and what is granted for   *)
(* one access is there for it unless a deeper read-only mount covers it;   *)
(* reading alone may come with a write grant.  A variable reaches it only  *)
(* if it is granted, and a fleet hands on every granted one.               *)
SandboxMatchesPolicy ==
    LET args == run_args(policy, run_env(policy, HostEnv), FALSE)
        m    == event_capability(event)
    IN  /\ \A proxy \in BOOLEAN :
              LET network == FlagsAt(run_args(policy, {}, proxy), "--network") IN
              /\ \A i, j \in network : i = j
              /\ network = {} <=>
                    \E v \in policy["net.http"].values : \E h \in {v.labels, <<ALabel>> \o v.labels} :
                       PolicyGrants(policy, "net.http", h)
        /\ m.cap \in {"fs.read", "fs.write"} /\ normpath(m.value).slashes = 1 =>
              LET path    == normpath(m.value)
                  rooted  == \A c \in {"fs.read", "fs.write"} :
                               \A v \in granted_values(policy, c) : v.slashes = 1
                  deepest == SeenThrough(args, path)
              IN  rooted =>
                    /\ Writable(args, path) => PolicyGrants(policy, "fs.write", path)
                    /\ Readable(args, path) <=> \E c \in {"fs.read", "fs.write"} :
                                                   PolicyGrants(policy, c, path)
                    /\ PolicyGrants(policy, "fs.write", path) /\ ~ Writable(args, path) =>
                          PolicyGrants(policy, "fs.read", path)
                             /\ deepest.path \notin mountable(policy, "fs.write")
        /\ \A v \in HostEnv :
              /\ (\E i \in FlagsAt(args, "-e") : args[i].value = v) => PolicyGrants(policy, "env", v)
              /\ v \in forwarded(policy, fleet_env(policy, HostEnv)) <=> PolicyGrants(policy, "env", v)

(* A republished manifest that only adds signals never turns an event into *)
(* a violation: the implied union is monotone, although collapsing a class *)
(* to [] replaces its values (contract.py, scope_unknown branch).          *)
GrowthNeverCreatesViolations ==
    [][verdict' = "outside_contract" => verdict \in {"none", "outside_contract"}]_vars
=============================================================================
