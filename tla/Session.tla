------------------------------ MODULE Session ------------------------------
(***************************************************************************)
(* One command of the command line, from its arguments to its exit code:   *)
(* run, audit and verify on one server, and the fleet verbs on several     *)
(* (src/mcp_contract/cli.py and fleet.py).                                 *)
(*                                                                         *)
(* A verb is a fixed sequence of steps per server.  `todo` holds the steps *)
(* that are left for the server at hand, so control is data: a step that   *)
(* goes through drops the head, an early return or an exception replaces   *)
(* the rest.  What a server really does is `truth`; each step may also     *)
(* fail in the ways its code can, and the exit code must follow from the   *)
(* truth all the same.                                                     *)
(***************************************************************************)
EXTENDS Naturals, Sequences

CONSTANT MaxServers         \* bound: servers in a fleet

ASSUME MaxServersAssumption == MaxServers \in Nat \ {0}

VARIABLES verb, opts, truth, n, server, todo, outcome, status, backend,
          raised, exit

vars == <<verb, opts, truth, n, server, todo, outcome, status, backend,
          raised, exit>>

Verbs == {"run", "audit", "verify", "fleet_audit", "fleet_verify", "fleet_run"}
IsFleet == verb \in {"fleet_audit", "fleet_verify", "fleet_run"}

(* The steps of a verb for one server, in the order of its code. *)
Steps(v) ==
  CASE v = "run"          -> <<"contract", "adapter", "start", "monitor", "observe", "stop", "write">>
    [] v = "audit"        -> <<"events", "contract", "classify", "write">>
    [] v = "verify"       -> <<"contract", "gate", "events", "classify", "write">>
    [] v = "fleet_audit"  -> <<"env", "contract", "events", "classify">>
    [] v = "fleet_verify" -> <<"env", "contract", "gate", "events", "nonempty", "classify">>
    [] v = "fleet_run"    -> <<"env", "contract", "spec", "adapter", "start", "monitor", "observe", "stop">>

(* The exceptions main() tells apart: "ValueError" stands for KeyError as   *)
(* well, "other" for any other Exception.                                  *)
Errors == {"FileNotFoundError", "ValueError", "other"}
Statuses == {"none", "ok", "violation", "rug_pull", "skipped", "error"}
NoCode == 255

Server == 1..MaxServers
(* What the manifest file has become since the policy was bound to it, and *)
(* what the server does.  A loadable manifest need not be hashable: a date *)
(* in a schema of a YAML one is no JSON.                                   *)
Truth == [manifest : {"bound", "drifted", "unhashable"},
          behaviour : {"empty", "clean", "outside"}]

Init ==
  /\ verb \in Verbs
  /\ opts \in [allow_empty : BOOLEAN, allow_drift : BOOLEAN]
  /\ truth \in [Server -> Truth]
  /\ n = IF IsFleet THEN 0 ELSE 1
  /\ server = IF IsFleet THEN 0 ELSE 1
  /\ todo = IF IsFleet THEN <<"config">> ELSE Steps(verb)
  /\ outcome = "none"
  /\ status = [s \in Server |-> "none"]
  /\ backend = [s \in Server |-> "down"]
  /\ raised = "none"
  /\ exit = NoCode

----------------------------------------------------------------------------
(* How a step ends. *)

At(step) == todo # <<>> /\ Head(todo) = step
Given == UNCHANGED <<verb, opts, truth, n>>

Continue == todo' = Tail(todo) /\ UNCHANGED <<server, status, raised, exit>>

(* An exception leaves the handler; main() decides on the exit code. *)
Raise(kinds) ==
  /\ raised' \in kinds
  /\ todo' = <<"main">>
  /\ UNCHANGED <<server, status, exit>>

(* A fleet verb files its envelope and goes on with the next server. *)
Envelope(st) ==
  /\ status' = [status EXCEPT ![server] = st]
  /\ IF server < n THEN server' = server + 1 /\ todo' = Steps(verb)
                   ELSE server' = server /\ todo' = <<"write">>
  /\ UNCHANGED <<raised, exit>>

Fail(kinds, st) == IF IsFleet THEN Envelope(st) ELSE Raise(kinds)

Return(code) ==
  /\ exit' = code
  /\ todo' = <<>>
  /\ UNCHANGED <<server, status, raised>>

(* Manifest.hash goes through. *)
Hashable(s) == truth[s].manifest # "unhashable"

(* verify_manifest_hash, and the test in Monitor.__init__ *)
Drifted(s) == truth[s].manifest = "drifted" /\ ~(verb = "run" /\ opts.allow_drift)

(* What lets s pass either of them. *)
Bound(s) == Hashable(s) /\ ~Drifted(s)

HashErrors == {"ValueError", "other"}

----------------------------------------------------------------------------
(* The steps. *)

(* Fleet.from_config and --select; the YAML of the configuration is parsed *)
(* without a guard, so a corrupt one raises what main() does not know.     *)
Configure ==
  /\ At("config")
  /\ \/ /\ n' \in 0..MaxServers
        /\ IF n' = 0 THEN server' = 0 /\ todo' = <<"write">>
                     ELSE server' = 1 /\ todo' = Steps(verb)
        /\ UNCHANGED <<status, raised, exit>>
     \/ Raise(Errors) /\ n' = n
  /\ UNCHANGED <<verb, opts, truth, outcome, backend>>

(* _check_env: a launch variable is unset, or the block is malformed *)
CheckEnv ==
  /\ At("env")
  /\ Continue \/ Envelope("skipped")
  /\ Given /\ UNCHANGED <<outcome, backend>>

(* load_manifest and load_policy *)
LoadContract ==
  /\ At("contract")
  /\ Continue \/ Fail(Errors, "error")
  /\ Given /\ UNCHANGED <<outcome, backend>>

(* Mutant: verify returns run's code for drift. *)
GateAsDrift ==
  /\ At("gate")
  /\ \/ Bound(server) /\ Continue
     \/ Drifted(server) /\ IF IsFleet THEN Envelope("rug_pull") ELSE Return(3)
     \/ ~Hashable(server) /\ Raise(HashErrors)
  /\ Given /\ UNCHANGED <<outcome, backend>>

(* The rug-pull gate of verify and fleet verify.  The hash is computed     *)
(* outside any try: in a fleet its exception leaves verify_all, too.       *)
Gate ==
  /\ At("gate")
  /\ \/ Bound(server) /\ Continue
     \/ Drifted(server) /\ IF IsFleet THEN Envelope("rug_pull") ELSE Return(2)
     \/ ~Hashable(server) /\ Raise(HashErrors)
  /\ Given /\ UNCHANGED <<outcome, backend>>

(* load_events_jsonl *)
LoadEvents ==
  /\ At("events")
  /\ Continue \/ Fail(Errors, "error")
  /\ Given /\ UNCHANGED <<outcome, backend>>

(* _verify_one: a recording of nothing is inconclusive *)
RefuseEmpty ==
  /\ At("nonempty")
  /\ IF truth[server].behaviour = "empty" /\ ~opts.allow_empty
     THEN Envelope("skipped")
     ELSE Continue
  /\ Given /\ UNCHANGED <<outcome, backend>>

(* The status a report earns: audit reports and never gates. *)
StatusOf(s) == IF verb # "fleet_audit" /\ truth[s].behaviour = "outside"
               THEN "violation" ELSE "ok"

(* Mutant: classify_events is called outside the try. *)
ClassifyUnguarded ==
  /\ At("classify")
  /\ \/ IF IsFleet THEN Envelope(StatusOf(server)) ELSE Continue
     \/ Raise({"ValueError", "other"})
  /\ Given /\ UNCHANGED <<outcome, backend>>

(* classify_events *)
Classify ==
  /\ At("classify")
  /\ \/ IF IsFleet THEN Envelope(StatusOf(server)) ELSE Continue
     \/ Fail({"ValueError", "other"}, "error")
  /\ Given /\ UNCHANGED <<outcome, backend>>

(* FleetServer.to_server_spec *)
ToServerSpec ==
  /\ At("spec")
  /\ Continue \/ Envelope("skipped") \/ Envelope("error")
  /\ Given /\ UNCHANGED <<outcome, backend>>

(* get_adapter; `run` checks --events-in and --image first *)
GetAdapter ==
  /\ At("adapter")
  /\ \/ Continue
     \/ Fail(Errors, "error")
     \/ verb = "run" /\ Return(2)
  /\ Given /\ UNCHANGED <<outcome, backend>>

(* adapter.start: the docker backend raises RuntimeError *)
StartServer ==
  /\ At("start")
  /\ \/ Continue /\ backend' = [backend EXCEPT ![server] = "up"]
     \/ Fail({"ValueError", "other"}, "error") /\ UNCHANGED backend
  /\ Given /\ UNCHANGED outcome

(* What Monitor(...) raises. *)
MonitorErrors(s) == CASE Drifted(s) -> {"drift"}
                      [] ~Hashable(s) -> HashErrors
                      [] OTHER -> {}

(* Monitor(...): in _cmd_run its exceptions pass the finally that stops    *)
(* the server; in _run_one the call lies before the try that has it.       *)
CreateMonitor ==
  /\ At("monitor")
  /\ \/ MonitorErrors(server) = {} /\ Continue /\ UNCHANGED outcome
     \/ \E error \in MonitorErrors(server) :
          IF IsFleet
          THEN Envelope(IF error = "drift" THEN "rug_pull" ELSE "error") /\ UNCHANGED outcome
          ELSE /\ outcome' = error
               /\ todo' = Tail(Tail(todo))
               /\ UNCHANGED <<server, status, raised, exit>>
  /\ Given /\ UNCHANGED backend

(* Mutant: an exception of monitor.run skips adapter.stop. *)
ObserveWithoutFinally ==
  /\ At("observe")
  /\ \/ Continue /\ outcome' = "report"
     \/ Fail({"ValueError", "other"}, "error") /\ UNCHANGED outcome
  /\ Given /\ UNCHANGED backend

(* monitor.run: a report, an exception of the backend, or Ctrl-C *)
Observe ==
  /\ At("observe")
  /\ outcome' \in {"report", "ValueError", "other", "interrupt"}
  /\ Continue
  /\ Given /\ UNCHANGED backend

(* The finally clause: adapter.stop, whose own failure is swallowed, and   *)
(* then whatever monitor.run left to do.                                   *)
StopServer ==
  /\ At("stop")
  /\ backend' \in {[backend EXCEPT ![server] = b] : b \in {"down", "stuck"}}
  /\ outcome' = "none"
  /\ CASE outcome = "report" -> IF IsFleet THEN Envelope(StatusOf(server)) ELSE Continue
       [] outcome = "drift"  -> Return(3)
       [] outcome = "interrupt" -> Raise({"interrupt"})
       [] OTHER -> Fail({outcome}, "error")
  /\ Given

----------------------------------------------------------------------------
(* The end of the command. *)

(* Mutant: the operational code is looked at first. *)
exit_code_inconclusive_first ==
  LET seen == {status[s] : s \in 1..n}
  IN  IF seen \intersect {"error", "skipped"} # {} THEN 4
      ELSE IF "rug_pull" \in seen THEN 2
      ELSE IF "violation" \in seen THEN 1
      ELSE 0

(* FleetReport.exit_code: security first, 2 > 1 > 4 > 0 *)
exit_code ==
  LET seen == {status[s] : s \in 1..n}
  IN  IF "rug_pull" \in seen THEN 2
      ELSE IF "violation" \in seen THEN 1
      ELSE IF seen \intersect {"error", "skipped"} # {} THEN 4
      ELSE 0

(* What a handler returns once everything is written. *)
ReturnCode ==
  CASE verb = "run"    -> IF truth[1].behaviour = "outside" THEN 1 ELSE 0
    [] verb = "audit"  -> 0
    [] verb = "verify" -> IF truth[1].behaviour = "outside" THEN 1
                          ELSE IF truth[1].behaviour = "empty" /\ ~opts.allow_empty
                          THEN 4 ELSE 0
    [] verb = "fleet_audit" -> exit_code
    [] OTHER -> IF n = 0 THEN 4 ELSE exit_code

(* Recorded events, report and exports are written before the handler      *)
(* returns; each write may fail.                                           *)
Write ==
  /\ At("write")
  /\ Return(ReturnCode) \/ Raise({"FileNotFoundError", "other"})
  /\ Given /\ UNCHANGED <<outcome, backend>>

(* main(): three kinds of exception are mapped to 4, any other one ends    *)
(* the interpreter with a traceback and 1, and Ctrl-C with 130.            *)
Main ==
  /\ At("main")
  /\ Return(CASE raised \in {"FileNotFoundError", "ValueError"} -> 4
              [] raised = "interrupt" -> 130
              [] OTHER -> 1)
  /\ Given /\ UNCHANGED <<outcome, backend>>

Next ==
  \/ Configure \/ CheckEnv \/ LoadContract \/ Gate \/ LoadEvents \/ RefuseEmpty
  \/ Classify \/ ToServerSpec \/ GetAdapter \/ StartServer \/ CreateMonitor
  \/ Observe \/ StopServer \/ Write \/ Main

Spec == Init /\ [][Next]_vars

----------------------------------------------------------------------------
(* Properties. *)

Exited == exit # NoCode
Judged == Exited /\ raised = "none" /\ verb \notin {"audit", "fleet_audit"}

(* Every variable keeps its type, and a command's exit code is one its     *)
(* documentation names (the codes of cli.py:46-56, and 130 for Ctrl-C).    *)
TypeOK ==
  /\ verb \in Verbs
  /\ n \in 0..MaxServers /\ server \in 0..MaxServers
  /\ outcome \in {"none", "report", "drift", "interrupt"} \union Errors
  /\ status \in [Server -> Statuses]
  /\ backend \in [Server -> {"down", "up", "stuck"}]
  /\ raised \in {"none", "interrupt"} \union Errors
  /\ exit \in {0, 1, 2, 3, 4, 130, NoCode}
  /\ exit = 3 => verb = "run"
  /\ exit = 2 => verb \notin {"audit", "fleet_audit"}

(* The server was looked at, as far as its verb looks. *)
Examined(s) == ~IsFleet \/ status[s] \notin {"error", "skipped"}

(* The exit code of a gating verb is the verdict on what its servers       *)
(* really did: 0 only when each was found to have its manifest unchanged,  *)
(* none left its contract or, for verify, was never observed; 1 only when  *)
(* one left its contract under an unchanged manifest; and a signal is      *)
(* reported whatever failed beside it.                                     *)
(* `run` has a code of its own for drift, and 2 for a bad invocation.      *)
(* (FleetReport.exit_code, _cmd_verify, _cmd_run)                          *)
ExitCodeIsTheVerdict ==
  Judged =>
    LET outside(s) == truth[s].behaviour = "outside" /\ Bound(s)
    IN  /\ exit = 0 =>
             /\ n > 0
             /\ \A s \in 1..n :
                  /\ Bound(s) /\ truth[s].behaviour # "outside"
                  /\ verb \in {"verify", "fleet_verify"} =>
                       opts.allow_empty \/ truth[s].behaviour # "empty"
        /\ exit = 1 => \E s \in 1..n : outside(s)
        /\ (\E s \in 1..n : Examined(s) /\ Drifted(s)) =>
              exit \in IF verb = "run" THEN {2, 3} ELSE {2}
        /\ (\E s \in 1..n : Examined(s) /\ outside(s)) => exit \in {1, 2}

(* A fleet verb examines every server it selected: whatever goes wrong     *)
(* with one of them, its siblings still get their envelope.  Only the      *)
(* configuration, a write and Ctrl-C end a batch early, and, an exception  *)
(* of the code's own, the gate of fleet verify at a manifest it cannot     *)
(* hash.                                                                   *)
(* (Fleet.verify_all, Fleet.audit_all, Fleet.run_all)                      *)
OneServerNeverAbortsTheBatch ==
  IsFleet =>
    /\ Exited /\ raised = "none" => \A s \in 1..n : status[s] # "none"
    /\ raised \notin {"none", "interrupt"} =>
         \/ \A s \in 1..n : status[s] # "none"
         \/ verb = "fleet_verify" /\ server \in 1..n /\ ~Hashable(server)

(* A backend that was started is stopped before the command exits, or its  *)
(* stop failed.  The exception is the code's own: a fleet run whose        *)
(* Monitor(...) raises, for a manifest that drifted or that cannot be      *)
(* hashed, returns without stopping the server.                            *)
(* (_cmd_run, Fleet._run_one)                                              *)
NoServerOutlivesTheCommand ==
  \A s \in Server :
    backend[s] = "up" /\ (Exited \/ s < server) =>
      verb = "fleet_run" /\ (status[s] = "rug_pull" \/ ~Hashable(s))

(* A comment of cli.py says of the codes 1 and 2 that a gate keyed on them *)
(* "is never triggered by a broken pipeline": they are not reached through *)
(* an exception.  (main)                                                   *)
BrokenPipelineIsNoSignal == raised # "none" => exit \notin {1, 2}

=============================================================================
