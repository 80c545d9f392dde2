------------------------------- MODULE Launch -------------------------------
(***************************************************************************)
(* How a policy becomes a sandbox (ral/docker.py, translate_policy_args,   *)
(* translate_network_args and start; the environment is filtered before,   *)
(* by cli.py or fleet.py).  A docker run command is the sequence of its    *)
(* policy flags [flag, value]; the fixed hardening flags, the working      *)
(* directory, the image and its command are left out.                      *)
(***************************************************************************)
EXTENDS Contract, Lists

Flag(f, v) == [flag |-> f, value |-> v]

-----------------------------------------------------------------------------
(* The environment the caller puts into the ServerSpec: `run` takes the    *)
(* variables of the host that the grant names, a fleet the variables of    *)
(* the launch entry, all of them under "*".                                *)

run_env(policy, host) ==
    IF granted(policy, "env") THEN policy["env"].values \cap host ELSE {}

fleet_env(policy, launch) ==
    CASE ~ granted(policy, "env") -> {}
      [] granted(policy, "env") /\ "*" \in policy["env"].values -> launch
      [] OTHER -> launch \cap policy["env"].values

-----------------------------------------------------------------------------
(* translate_policy_args: "write" wins over "read" for the same path, and  *)
(* a path that is not absolute is not mounted.                             *)

mountable(policy, cap) ==
    IF granted(policy, cap)
      THEN {p \in {normpath(v) : v \in policy[cap].values} : p.slashes > 0} ELSE {}

(* Mutant: what is granted for both is mounted read-only.                  *)
mounts_read_wins(policy) ==
    {[path |-> p, mode |-> "ro"] : p \in mountable(policy, "fs.read")} \cup
    {[path |-> p, mode |-> "rw"] : p \in mountable(policy, "fs.write") \
                                         mountable(policy, "fs.read")}

mounts(policy) ==
    {[path |-> p, mode |-> "rw"] : p \in mountable(policy, "fs.write")} \cup
    {[path |-> p, mode |-> "ro"] : p \in mountable(policy, "fs.read") \
                                         mountable(policy, "fs.write")}

forwarded(policy, env) ==
    CASE ~ granted(policy, "env") -> {}
      [] granted(policy, "env") /\ "*" \in policy["env"].values -> env
      [] OTHER -> policy["env"].values \cap env

FlagsOf(f, values) == LET s == SetToSeq(values) IN [i \in DOMAIN s |-> Flag(f, s[i])]

translate_policy_args(policy, env) ==
    (IF granted(policy, "net.http") THEN << >> ELSE <<Flag("--network", "none")>>) \o
    FlagsOf("-v", mounts(policy)) \o
    FlagsOf("-e", forwarded(policy, env))

-----------------------------------------------------------------------------
(* start: the network flags come from the plan alone.  A container behind  *)
(* the proxy is pointed at its endpoint by assignments, in both cases.     *)

ProxyVars == <<"HTTP_PROXY=endpoint", "HTTPS_PROXY=endpoint",
               "http_proxy=endpoint", "https_proxy=endpoint">>

translate_network_args(plan, proxied) ==
    CASE proxied                          -> [i \in DOMAIN ProxyVars |-> Flag("-e", ProxyVars[i])] \o
                                                <<Flag("--add-host", "host-gateway")>>
      [] ~ proxied /\ plan.mode = "deny"  -> <<Flag("--network", "none")>>
      [] OTHER                            -> << >>

without_network_flag(args) == Picked(args, {i \in DOMAIN args : args[i].flag # "--network"})

starts_proxy(policy, egress_proxy) ==
    egress_proxy /\ egress_plan(policy).mode \in {"allowlist", "open"}

run_args(policy, env, egress_proxy) ==
    without_network_flag(translate_policy_args(policy, env)) \o
    translate_network_args(egress_plan(policy), starts_proxy(policy, egress_proxy))

-----------------------------------------------------------------------------
(* What docker makes of the mounts: a path of the host is seen through the *)
(* deepest mount above it.                                                 *)

MountsAbove(args, path) ==
    {args[i].value : i \in {j \in DOMAIN args :
        args[j].flag = "-v" /\ UnderPrefix(path, args[j].value.path)}}

SeenThrough(args, path) ==
    CHOOSE m \in MountsAbove(args, path) :
        \A n \in MountsAbove(args, path) : Len(n.path.comps) <= Len(m.path.comps)

Readable(args, path) == MountsAbove(args, path) # {}
Writable(args, path) == Readable(args, path) /\ SeenThrough(args, path).mode = "rw"
=============================================================================
