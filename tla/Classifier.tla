----------------------------- MODULE Classifier -----------------------------
(***************************************************************************)
(* From a tool of the manifest to capability signals (pie/classifier.py).  *)
(* The regular expressions are abstracted to what they find: a tool is     *)
(*   name, words  the recognised words of its name and of its description  *)
(*                with the URLs taken out; url_words are those inside URLs *)
(*   urls         the hosts of the URLs in the description, as written     *)
(*   literals     the dotted names in the rest of the description          *)
(*   paths        the path literals there; route: a "{" follows            *)
(*   params       per parameter, what its name and its format suggest      *)
(*   vars         the identifiers that look like environment variables     *)
(***************************************************************************)
EXTENDS Contract

CONSTANTS FileExtension, KnownTld,      \* the two tables of final labels
          NetWord, FsWord, ReadVerb, WriteVerb, MoveishVerb, ExecWord, SecretWord

ASSUME VerbAssumption == MoveishVerb \subseteq WriteVerb

-----------------------------------------------------------------------------
(* net.http *)

(* str.strip(".") *)
strip_dots(labels) ==
    LET full == {i \in DOMAIN labels : labels[i] # Empty} IN
    IF full = {} THEN << >> ELSE SubSeq(labels, Min(full), Max(full))

host_from_url(u) == [u EXCEPT !.labels = strip_dots(LowerHost(@))]

url_hosts(t) ==
    {host_from_url(u) : u \in t.urls} \ {[wild |-> "none", labels |-> << >>]}

(* Dotted names, unless they look like a file.                             *)
candidates(t) ==
    {h \in {LowerHost(l) : l \in t.literals} : Last(h) \notin FileExtension}

known_hosts(t) ==
    url_hosts(t) \cup
    {[wild |-> "none", labels |-> h] : h \in {c \in candidates(t) : Last(c) \in KnownTld}}

review_hosts(t) ==
    {[wild |-> "none", labels |-> h] : h \in candidates(t)} \ known_hosts(t)

(* The endpoint is the caller's to choose.                                 *)
takes_endpoint(t) == \E p \in t.params : p.net \/ p.uri

confirms_net(t) == (t.name \cup t.words) \cap NetWord # {}

(* Mutant: a URL next to the parameter is taken for the scope.             *)
classify_net_literal_wins(t) ==
    LET values == known_hosts(t) \cup review_hosts(t) IN
    CASE values = {} /\ ~ takes_endpoint(t) /\ ~ confirms_net(t) -> {}
      [] known_hosts(t) # {} /\ review_hosts(t) = {} ->
            {[status |-> "inferred", values |-> known_hosts(t)]}
      [] OTHER ->
            {[status |-> "needs_review", values |-> values \cup
                (IF takes_endpoint(t) \/ values = {} THEN {AnyHost} ELSE {})]}

classify_net(t) ==
    LET values == known_hosts(t) \cup review_hosts(t) IN
    CASE values = {} /\ ~ takes_endpoint(t) /\ ~ confirms_net(t) -> {}
      [] known_hosts(t) # {} /\ review_hosts(t) = {} /\ ~ takes_endpoint(t) ->
            {[status |-> "inferred", values |-> known_hosts(t)]}
      [] OTHER ->
            {[status |-> "needs_review", values |-> values \cup
                (IF takes_endpoint(t) \/ values = {} THEN {AnyHost} ELSE {})]}

-----------------------------------------------------------------------------
(* fs.read, fs.write *)

(* Mutant: the dotted names of the description are not looked at.          *)
net_context_no_names(t) ==
    \/ t.urls # {}
    \/ confirms_net(t)
    \/ \E p \in t.params : p.net

(* What makes "/..." a route rather than a path.                           *)
net_context(t) ==
    \/ t.urls # {}
    \/ confirms_net(t)
    \/ candidates(t) # {}
    \/ \E p \in t.params : p.net

path_literals(t) ==
    {p.path : p \in {q \in t.paths : ~ q.route}} \
    {[slashes |-> 1, comps |-> << >>], [slashes |-> 0, comps |-> <<".", Empty>>]}

(* The accesses the verbs name; moving and copying read their source.      *)
directions(t) ==
    LET verbs == t.name \cup t.words IN
    (IF verbs \cap (ReadVerb \cup MoveishVerb) # {} THEN {"fs.read"}  ELSE {}) \cup
    (IF verbs \cap WriteVerb # {}                   THEN {"fs.write"} ELSE {})

touches_fs(t) == (\E p \in t.params : p.fs) \/ t.name \cap FsWord # {}

classify_fs(t, cap) ==
    IF touches_fs(t) /\ (directions(t) = {} \/ cap \in directions(t))
      THEN {[status |-> IF path_literals(t) # {} /\ directions(t) # {} /\ ~ net_context(t)
                          THEN "inferred" ELSE "needs_review",
             values |-> path_literals(t)]}
      ELSE {}

-----------------------------------------------------------------------------
(* proc.exec and env: never granted by the rules.                          *)

classify_proc(t) ==
    IF (t.name \cup t.words \cup t.url_words) \cap ExecWord # {}
      THEN {[status |-> "needs_review", values |-> {}]} ELSE {}

classify_env(t) ==
    IF t.vars # {} \/ (t.words \cup t.url_words) \cap SecretWord # {}
      THEN {[status |-> "needs_review", values |-> t.vars]} ELSE {}

-----------------------------------------------------------------------------
classify_tool(t) ==
    [cap \in CapabilityId |->
        CASE cap = "net.http"                -> classify_net(t)
          [] cap \in {"fs.read", "fs.write"} -> classify_fs(t, cap)
          [] cap = "proc.exec"               -> classify_proc(t)
          [] OTHER                           -> classify_env(t)]

(* The signals of a manifest, as inference and the implied union take them. *)
manifest_signals(tools) ==
    [cap \in CapabilityId |-> UNION {classify_tool(t)[cap] : t \in tools}]
=============================================================================
