----------------------------- MODULE MCContract -----------------------------
(***************************************************************************)
(* Checks the decision rules over bounded inputs: each class of events     *)
(* with the policies, signals and tools that its rules tell apart, the     *)
(* other classes empty.                                                    *)
(***************************************************************************)
EXTENDS Decisions

TldLabel == {"com", "py", "zz"}
MCLabel  == {Empty, "a", "A", "b", "0/8"} \cup TldLabel
MCLower == [l \in MCLabel |-> IF l = "A" THEN "a" ELSE l]

MCCidr    == {[wild |-> "none", labels |-> <<"0/8">>]}
MCStarred == {"F*"}
MCHostEnv == {"sh", "x"}

UpTo2(S)      == {T \in SUBSET S : Cardinality(T) <= 2}
Caps(st, vs)  == [status : st, values : vs]
Only(cap, x, other) == [c \in CapabilityId |-> IF c = cap THEN x ELSE other]
NoneOf        == [c \in CapabilityId |-> {}]
AllDenied     == [c \in CapabilityId |-> Denied]

(* A case without tools.                                                   *)
Cases(events, policies, given, suggested) ==
    [event : events, policy : policies, tools : {{}}, given : given, llm : suggested]

-----------------------------------------------------------------------------
(* Hosts, paths and names.                                                 *)

Hosts == {<<l>> : l \in MCLabel \ TldLabel} \cup {<<l, m>> : l, m \in {Empty, "a", "A"}} \cup
         {<<"b", l, "a">> : l \in {"a", "b", Empty}}
Patterns == {AnyHost} \cup
            [wild : {"suffix"}, labels : {<<"a">>, <<"A">>, <<"b", "a">>}] \cup
            [wild : {"none"},   labels : {<<"a">>, <<"A">>, <<"b", "A">>}] \cup MCCidr
NetValues == {{}, {AnyHost}, {[wild |-> "none", labels |-> <<"a">>]},
              {AnyHost, [wild |-> "suffix", labels |-> <<"A">>]}}
Net(h, i)  == [kind |-> "net.connect", host |-> h, ip |-> i]

Comps     == {"..", ".", Empty, "d", "e"}
CompSeqs  == {<< >>} \cup {<<c>> : c \in Comps} \cup {<<c, d>> : c, d \in Comps} \cup
             {<<c, d, e>> : c, d, e \in {"..", "d", "e"}}
Paths(sl) == [slashes : sl, comps : CompSeqs]
Open(p, m) == [kind |-> "fs.open", path |-> p, mode |-> m]
D == [slashes |-> 1, comps |-> <<"d">>]
E == [slashes |-> 1, comps |-> <<"d", "e">>]
FsValues  == {{}, {D}, {StarOf("fs.read")}, {D, StarOf("fs.read")}}

Spawn(argv, cmd) == [kind |-> "proc.spawn", argv |-> argv, cmd |-> cmd]
Programs == {<<"sh">>, <<Empty, "bin", "sh">>, <<"sh", Empty>>}
NameValues == {{}, {"sh"}, {"*"}, {"sh", "*"}, {"F*", "x"}}

ValuesOf(cap) == CASE cap = "net.http" -> NetValues
                   [] cap \in {"fs.read", "fs.write"} -> FsValues
                   [] OTHER -> NameValues

MCNewSignal == [cap \in CapabilityId |-> Caps({"inferred", "needs_review"}, ValuesOf(cap))]

Policies(cap, values) ==
    {Only(cap, p, Denied) : p \in Caps({"inferred", "needs_review", "denied"}, values)}

NetCases == Cases({Net(h, i) : h \in Hosts, i \in {<<Empty>>, <<"a">>}},
                  Policies("net.http", UpTo2(Patterns)), {NoneOf}, {NoneOf})

PathCases == Cases({Open(p, {"r"}) : p \in Paths({0, 1, 2})},
                   {Only("fs.read", p, Denied) : p \in Caps({"inferred"}, {{q} : q \in Paths({1})})},
                   {NoneOf}, {NoneOf})

SignalCases(cap, events, values) ==
    Cases(events, Policies(cap, values),
          {Only(cap, s, {}) : s \in UpTo2(Caps({"inferred", "needs_review"}, values))},
          {NoneOf, Only(cap, values, {})})

(* Grants of both accesses, under and next to each other.                  *)
MountPolicies ==
    LET grants == {Denied} \cup Caps({"inferred"}, {{D}, {E}, {D, E},
                     {[D EXCEPT !.slashes = 0]}, {Root, [E EXCEPT !.comps = @ \o <<"..">>]}})
    IN  {[AllDenied EXCEPT !["fs.read"] = r, !["fs.write"] = w] : r, w \in grants}

MountCases ==
    Cases({Open(p, {m}) : p \in {D, E, [D EXCEPT !.comps = <<"e">>]}, m \in {"r", "w"}},
          MountPolicies, {NoneOf}, {NoneOf})

-----------------------------------------------------------------------------
(* Tools.  A bare tool, and what may be found in it.                       *)

Bare == [name |-> {}, words |-> {}, url_words |-> {}, urls |-> {}, literals |-> {},
         paths |-> {}, params |-> {}, vars |-> {}]
Param(has) == [net |-> "net" \in has, uri |-> "uri" \in has, fs |-> "fs" \in has]
MCNetWord       == {"fetch"}
MCFsWord        == {"file"}
MCReadVerb      == {"read"}
MCWriteVerb     == {"save", "move"}
MCMoveishVerb   == {"move"}
MCExecWord      == {"shell"}
MCSecretWord    == {"token"}
MCFileExtension == {"py"}
MCKnownTld      == {"com"}

Urls  == [wild : {"none"}, labels : {<<"A", "com">>, <<"b", "zz", Empty>>, <<Empty>>}] \cup
         {AnyHost}
Names == {<<"A", "com">>, <<"b", "py">>, <<"b", "zz">>}
PathLiteral(route) == [path |-> IF route THEN D ELSE E, route |-> route]

NetTools ==
    {[Bare EXCEPT !.urls = u, !.literals = l, !.params = p, !.name = n] :
       u \in UpTo2(Urls), l \in UpTo2(Names), n \in SUBSET MCNetWord,
       p \in {{}, {Param({"net"})}, {Param({"uri"})}}}
FsTools ==
    {[Bare EXCEPT !.name = n, !.words = w, !.params = p, !.paths = q, !.literals = l] :
       n \in UpTo2({"file", "read", "save", "move"}),
       w \in {{}, {"read"}, {"save"}, {"move"}, {"fetch"}},
       p \in {{}, {Param({"fs"})}, {Param({"fs"}), Param({"uri"})}, {Param({"fs", "net"})}},
       q \in {{}, {PathLiteral(TRUE)}, {PathLiteral(FALSE)},
              {PathLiteral(TRUE), PathLiteral(FALSE)}},
       l \in {{}, {<<"b", "com">>}, {<<"b", "py">>}}} \cup
    {[Bare EXCEPT !.name = {"file", "read"}, !.paths = {PathLiteral(FALSE)}, !.urls = {u}] :
       u \in Urls}
OtherTools ==
    {[Bare EXCEPT !.words = w, !.url_words = x, !.vars = v] :
       w \in SUBSET {"shell", "token"}, x \in SUBSET {"shell"}, v \in {{}, {"x"}}}
MCNewTool ==
    {[Bare EXCEPT !.urls = {[wild |-> "none", labels |-> <<"a", "com">>]}],
     [Bare EXCEPT !.params = {Param({"net"})}],
     [Bare EXCEPT !.name = {"file", "move"}, !.paths = {PathLiteral(FALSE)}],
     [Bare EXCEPT !.name = {"file"}], [Bare EXCEPT !.vars = {"x"}, !.words = {"shell"}]}

LlmAnything == [c \in CapabilityId |->
    CASE c = "net.http" -> {{AnyHost}} [] c \in {"fs.read", "fs.write"} -> {{Root}}
      [] OTHER -> {{"x"}, {}}]

ToolCases ==
    [event  : {Net(<<"a", "com">>, <<"a">>), Open(E, {"r"})},
     policy : {AllDenied},
     tools  : {{t} : t \in NetTools \cup FsTools \cup OtherTools},
     given  : {NoneOf},
     llm    : {NoneOf, LlmAnything}]

MCCase ==
    NetCases \cup PathCases \cup MountCases \cup ToolCases \cup
    SignalCases("net.http", {Net(h, <<"a">>) : h \in Hosts}, NetValues) \cup
    SignalCases("fs.read", {Open([D EXCEPT !.comps = @ \o x], m) :
                            x \in {<<>>, <<"e">>, <<"..">>}, m \in {{"r", "b"}, {"r", "+"}}},
                FsValues) \cup
    SignalCases("fs.write", {Open(D, m) : m \in {{"r", "b"}, {"a"}, {}}}, FsValues) \cup
    SignalCases("proc.exec", {Spawn(<<p>>, << >>) : p \in Programs} \cup
                             {Spawn(<< >>, <<p>>) : p \in Programs} \cup
                             {Spawn(<< >>, << >>)}, NameValues) \cup
    SignalCases("env", [kind : {"env.read"}, var : {"sh", "*", "x"}], NameValues) \cup
    SignalCases("env", [kind : {"mcp.call", "syscall"}, var : {Empty}], {{}})
=============================================================================
