# A verification of mcp-contract in TLA+

mcp-contract treats the tool manifest of an MCP server as a contract: it infers
a least-privilege policy from the manifest, watches what the server really does
through a sandbox backend, files every event under *within policy*, *within
manifest* or *outside contract*, and can enforce the network part with a
filtering proxy. This directory models the parts of it that decide and the
parts that run concurrently, checks them with TLC on small instances and proves
with TLAPS, for every value of the constants, that the live monitor implements
the offline audit and every safety property the runs check. Only liveness is left
to TLC alone. Paths below are relative to the repository; `pkg/` stands for `src/mcp_contract/`.

    tlc -workers 2 -config MCMonitor.cfg MCMonitor.tla      # check one run
    for m in *Proofs.tla; do tlapm $m; done                 # check the proofs

## 1. Inventory of the system

| Component (code) | State | Operations | Talks to |
|---|---|---|---|
| Contract rules (`pkg/bcm/diff.py`, `pkg/bcm/contract.py`, `pkg/proxy/plan.py`) | none | `event_capability`, `host_matches`, `path_matches`, `classify_event`, `manifest_implied_caps`, `egress_plan` | called by monitor, audit, proxy |
| Policy inference (`pkg/pie/inference.py`, `pkg/pie/llm.py`) | none | `infer_policy`, `merge_class_signals`, `_clamp_llm` | classifier, LLM protocol |
| Tool classifier (`pkg/pie/classifier.py`) | none | signals from names, descriptions and schemas | feeds inference and the implied union |
| Policy documents (`pkg/policy/io.py`, `pkg/policy/conformance.py`) | none | dump, load, strict projection, import, schema check, binding to a manifest | command line, fleet, reviewers |
| Policy files (`pkg/cli.py`, `pkg/fleet.py`, `pkg/policy/io.py`) | one file per server, between the commands | `infer`, `fleet infer` with its second pass, the gates, a reviewer's editor | every command, every server's author |
| Sandbox launch (`pkg/ral/docker.py`, `pkg/fleet.py`, `pkg/cli.py`) | none | policy to `docker run` arguments, environment filters | docker backend |
| Offline classification (`pkg/bcm/report.py`) | report under construction, tool context | `classify_events`, JSONL in and out | command line, fleet |
| Monitor (`pkg/bcm/monitor.py`) | run loop, pump thread, queue, deadline, report | `__init__` (rug-pull gate), `run` | adapter (`event_stream`, `block`), `on_alert` callback |
| Docker backend (`pkg/ral/docker.py`, `pkg/ral/base.py`) | container, proxy, queue of proxy events, what was seen | `start`, `event_stream`, `block`, `stop` | docker daemon by subprocess, egress proxy by callback |
| Mock backend (`pkg/ral/mock.py`) | replayed list | the same four | monitor |
| Egress proxy (`pkg/proxy/server.py`) | accept loop, handler threads, event log, registry of tunnel sockets, stop flag | `start`, `stop`, `do_CONNECT`, HTTP forwarding | clients, upstreams, `on_event` callback |
| Tunnel relay (`_relay` in `pkg/proxy/server.py`) | two pumps on two sockets | `recv`, `sendall`, half close, tear down, `join` | both peers |
| Fleet (`pkg/fleet.py`) | one envelope per server | infer, audit, verify, run of all servers, exit code | all of the above |
| Command line (`pkg/cli.py`) | exit code | `infer`, `run`, `audit`, `verify`, `proxy`, `fleet ...`, `main` | all of the above |
| Report export (`pkg/report/export.py`) | none | SARIF with its cap, SIEM, severity | command line, fleet |
| Manifest loader (`pkg/manifest.py`) | none | `load_manifest`, hash | all |

What is hard about it, and what must hold in each part:

* **Contract rules.** The decision "may this host be reached" is written twice
  (the monitor's classification, the proxy's plan), and so is the merging of
  classifier signals (the policy, the implied union). They must agree on every
  edge: empty value lists, `*`, letter case, the root directory, `..`.
* **Classifier.** Several rules look at one tool; one parameter or one dotted name
  must keep a class under review, and what is granted must be what is written.
* **Policy documents and files.** A human edits what one command wrote and the
  next one reads, and nothing is locked: an inferring command rewrites the files
  (truncate, then fill) while a gate reads manifest and policy one after the
  other, a server republishes, and a process is killed in between. No edit may
  widen a policy, no approval may outlive the manifest it was made on, no failed
  server may lose its policy, and no gate may cry wolf.
* **Sandbox launch.** The same grants are enforced by mounts, flags and
  environment filters written apart from the monitor's rules.
* **Report export.** Two feeds and a severity select events by tests of their own;
  one of them is cut at a cap.
* **Monitor.** With a duration, a pump thread runs ahead of the consumer and
  may outlive it; the deadline races the last event, the sentinel and an error.
  The report must be the audit of a prefix of what the adapter yielded, and what
  is alerted and blocked must be what the report says.
* **Docker backend.** The container may exit, and with `--rm` vanish, between
  any two docker commands; each command may fail; the proxy emits events until
  the end from other threads. A live server's observation must not end, nothing
  polled may be forgotten, the proxy must not survive, enforcement must not be
  silent.
* **Egress proxy.** Many handler threads share a log and a registry, and
  `stop()` may run at any point of any of them, twice, and before the accept
  loop has begun. No byte flows unlogged, nothing leaks, stop returns.
* **Relay.** Two threads, half-closed sockets and idle timeouts: no truncation,
  no join that waits for ever.
* **Command line and fleet.** Every step of every server can fail; the exit
  code must still be the verdict, no server may hide another, and a started
  server must be stopped.

`PROJECT.json` lists the hazards one by one with the line where each bites.

## 2. Modules

    Contract <- Inference, Classifier, PolicyIO, Launch <- Decisions <- MCContract, ContractProofs
    Audit    <- Monitor (INSTANCE, refinement)
    Monitor, Export <- MonitorExport <- MCMonitor (INSTANCE Contract), MonitorProofs
    Lists    <- Launch, Export
    Lists    <- Recursion <- ContractProofs, MonitorProofs
    EgressProxy   <- MCEgressProxy (INSTANCE Contract), EgressProxyProofs
    Relay         <- RelayProofs
    DockerAdapter <- DockerProofs
    Session       <- SessionProofs
    PolicyFiles   <- PolicyFilesProofs

**Contract, Inference, Classifier, PolicyIO, Launch** are operators named after
the functions they translate. A host is the sequence of its labels, so that "ends
with `.suffix`" is a question about sequences; a path is its number of leading
slashes (POSIX keeps two) and its components. Lists whose order and repetition no
decision reads are sets. `path_matches` is stated on normalised paths, with
`posixpath.normpath` as an external definition.

* In `Classifier` a tool is what the regular expressions find in it (words of its
  name and description, hosts in URLs, dotted names, path literals, what each
  parameter suggests); the rules over these findings are the code's.
* In `PolicyIO` a document is its permissions block and, unless it is stripped or
  foreign, the extension block with the capability list a reviewer edits and the
  hash it is bound to.
* `Launch` makes the sequence of `docker run` flags out of a policy, those that
  point the container at the proxy included, and says,
  as external definitions, what docker makes of nested mounts.

**Decisions** turns them into a two-step machine over a set `Case` of cases: an
initial state is one event, one policy, a manifest given by its signals or by its
tools, and the LLM's suggestions; `Classify` decides it, and `Grow` and `GrowTool`
republish the manifest with one more signal or tool and decide again. The
properties of the decisions are stated there. **MCContract** only gives the cases
that TLC goes through; the proofs are about any set of them.

**Audit** is the abstract specification of monitoring: events arrive, each is
appended to the report with the context and class that `classify_events` would
give it, at some point it is over. `classify_events` itself is there as a
recursive function over the positions of the list, and the property `LoopIsPositional` ties the loop, which carries a context from
event to event, to a definition without a loop. **Export** makes SARIF, SIEM and
severity of a sequence of reports; **MonitorExport** exports the report of a run at
every moment, alone and in fleets of servers that all did the same. **Lists** is the
loop that keeps some items of a list (the exports' selections, the dropped network
flag), as a recursive function, so that it can be proved about.

**Monitor** has the thread that calls `run` (`pc`), the pump thread (`pump`),
the queue between them with its sentinel, the adapter (`stream`, free to yield,
stay silent, end or raise), the deadline (`expired`) and the two effects. One
action per step at which another thread can get in between: `Handle` is the
body of `handle_event` up to the first callback, `Alert` and `Block` are the
calls that may raise, `AfterEvent` the `max_events` test. Its substitution into
`Audit` is `over <- pc \in {"drift", "returned", "raised"}`; the property
`ImplementsAudit` is the refinement.

**EgressProxy** has one program counter per client connection, from `Accept`
through reading, the decision, the dial, the event and the tunnel to
`Unregister`; the accept loop of `socketserver` (`serve`,
`shutdown_request`, external, as `shutdown()` waits for it); and any number of
threads inside `stop()`, which is split at every point where the code holds no
lock. `Sanctioned` is the set of hosts the plan lets out; MCEgressProxy computes
it from a policy with the operators of Contract. `Unencodable` are the names the
IDNA codec refuses.

**Relay** is one tunnel: two pumps, each reading one socket and writing the
other, with peers that send a bounded number of chunks, stop, close or reset at
will, and a clock that drives the idle timeout.

**DockerAdapter** has the container and the daemon's own removal of it, the
generator (`gen`), which is the body of `event_stream` between its yields, and
the thread that blocks and stops (`main`). `tries` and `mtries` are the inspect
attempts of the two; `drained`, `polled` and `atExit` are history variables.

**Session** is one command line from its arguments to its exit code. A verb is a
sequence of steps (`Steps`), `todo` holds those that are left, and an early
return or an exception replaces it. `truth` says what each server really does, and
whether its manifest is the one its policy is bound to, another one, or one that
`Manifest.hash` cannot write as JSON. The single verbs raise into `main`, the fleet
verbs file an envelope and go on, except at the gate of `Fleet._verify_one`, which
stands outside its `try` blocks.

**PolicyFiles** is what lies between the commands. Its variables are the
published manifests, the files, a reviewer's editor, an inferring command
(`infer`), a gate (`gate`) and the history `differed`: whether at some moment
since the gate began its server's policy was not whole or not bound to the
manifest published then. A document is its form, the manifest it is bound to and
the manifests its approvals were made on. Writing is two steps, `Dump` (truncate)
and `Fill`, and the second pass of `fleet infer --emit base` again two,
`Reproject` and `Refill`, of which the first may also raise on a file it can read, before
it truncates it. A gate that cannot hash the manifest ends in an error. `Killed` may come between any two steps, and after it
the file stays torn.

## 3. Runs

| Run | Shows | Bounds, and why they are enough |
|---|---|---|
| `contract` | `ProxyAgreesWithMonitor`, `SandboxMatchesPolicy`: proxy, sandbox and monitor enforce the same grants. `GrantsAreImplied`, `GrantsAreLiteral`, `RoutesAreNoPaths`: a grant was spelled out by the tools and is implied by the manifest, whatever an LLM suggests. `PathMatchIsContainment`. `BaseIsFaithful`, `EditsAreHonoured`: the strict projection reads back to the same grants, and an edited document says what its edits say or is refused. `GrowthNeverCreatesViolations`. | hosts of up to 3 labels, one empty and two differing in case; all paths of up to 2 components and those of 3 without `.`; up to 2 patterns in a grant, and `GrowthBound` = 2 signals per class or tools; every edit of one entry. Every rule looks at a value and one pattern at a time, or at whether a finding of some kind exists. |
| `monitor` | the live run refines `Audit`; alerts and blocks match the report; nothing that was yielded is dropped without an error or a bound to explain it; auditing the recording gives the report again; the loop that carries the context equals the positional definition; a timed run returns; the SARIF log is complete up to its cap (`SarifIsFaithful`) and tells the story of the SIEM rows and the severity (`FeedsAgree`) | 3 events, so that the pump can be ahead by more than one; limits 0, 2 and none; all modes; with and without duration; fleets of one and of two servers, a SARIF cap of 2 so that logs are cut |
| `monitor_slow_block` | a timed run does not return when `block()` does not | as above |
| `proxy` | see section 4, and `stop()` and the handlers make progress | 2 connections and 2 callers of `stop()`: a tunnel before and one after the snapshot, and a second caller that finds the flag set; 4 hosts (empty, granted, granted but not encodable, refused) |
| `proxy_stop_race` | a handler that registers after the snapshot outlives `stop()` | plan that lets all hosts out |
| `proxy_unlogged` | an allowed CONNECT without an event | as `proxy` |
| `relay` | a half close truncates nothing, every relay ends | 3 chunks a peer, timeout of 2 ticks |
| `docker` | the stream ends normally only after an exit, no polled endpoint is forgotten, the proxy's events arrive in order and complete, the proxy never survives, `block` and `stop` are never silent; after an exit the stream finishes | 3 endpoints: the hop to the proxy, one on the proxy's port elsewhere, one that is neither; one pid, two proxy events, one block; three inspect attempts and two removal attempts, as in the code |
| `docker_exit` | the exit of the server makes the stream raise | a daemon that never fails |
| `session` | the exit code is the verdict; one server never aborts a batch, but by a manifest that cannot be hashed; no started server outlives the command, but for those `Monitor` refuses | 2 servers, so that each can hide the other; all combinations of a manifest that is bound, drifted or cannot be hashed with what the server does; every failure at every step |
| `session_signal` | an unmapped exception ends with the code of a violation | 1 server |
| `policy_files` | a rug pull is reported only if policy and manifest differed during the gate's command, and what passes was approved on the manifest that was read (`VerdictIsEarned`); a finished batch leaves the policies it reports (`InferLeavesItsPolicy`); it changes no file of a server it could not infer for (`FailuresKeepTheirPolicy`) | 2 servers and 2 files that may coincide, 2 manifest contents, 2 republications or reviews (a rollback, or a republication during a review); symmetry over files and contents |

`CHECK_DEADLOCK FALSE` is set in every run, since all of these systems stop: a
run returns, a command exits, a proxy is stopped, a case is decided, and after
the commands the world may leave the files alone.

Each property of a passing run has a *mutant*: an operator of the module, marked
`Mutant`, that is a definition with a plausible bug in it (the event stamped
before its own call is tracked, the listener closed before the accept loop has
been left, a half close that shuts both directions).
With it in place of the original the run must fail.

### Fairness

* **Monitor.** The consumer's own steps and the clock are weakly fair; the
  adapter's stream is not, it may block for ever. `Spec` also takes `block()` to
  return; `SpecSlowBlock` does not.
* **EgressProxy.** The accept loop, the threads in `stop()` and the handlers are
  weakly fair. A handler's blocking calls are `recv` and `connect`, both under a
  finite timeout (`_ProxyHandler.timeout`, `_connect_upstream`); name
  resolution is taken to return. Clients and upstreams are not fair, and a tunnel
  may relay for ever.
* **Relay.** Time passes and a pump that can move does; peers owe nothing.
* **PolicyFiles** and **Session** state safety only: a command may be killed, and
  a reviewer owes nothing.
* **DockerAdapter.** The generator's steps are weakly fair, as a consumer that
  keeps iterating makes them, and so are the steps of a `block()` or `stop()`
  that has begun. The daemon answers or fails each command.

## 4. What is proved

`EgressProxyProofs` proves, for every set of connections, callers, hosts and
every plan, under the module's assumption that the empty host, the sanctioned
and the unencodable hosts are hosts:

* `TypeCorrect`: `Spec => []TypeOK`.
* `FlowsAreLogged`: `Spec => []NothingFlowsUnlogged`. A host outside the plan is
  never dialled, and when a byte can flow the log holds the one event of its
  connection, allowed and without error.
* `LogIsExact`: `Spec => []AttemptsLoggedOnce`.
* `NoLeak`: `Spec => []FinishedHandlersLeakNothing`.
* `StopIsEffective`: `Spec => []StopStopsServing`.

None of these is inductive by itself. The invariant proved to be inductive is

    IInv == TypeOK /\ RequestInv /\ LogInv /\ AttemptsLoggedOnce /\ SocketInv /\ StopInv

`RequestInv` says what a handler knows of its request at each program point (past
the decision it is authorised and sanctioned); `LogInv` that an early handler has
no event and a flowing one exactly the right one; `SocketInv` gives each program
point the sockets that are open and those that may be in the registry, which is
what makes every exit of a handler leak-free even when `stop()` closes sockets
under it; `StopInv` says that one thread at most does the work of `stop()`, how
far the shutdown has got at each of its program points, and that a relaying
tunnel is cut, in the registry, or among the victims of a snapshot. Each conjunct has a step lemma; `StepCases` splits
`Next` into the actions, and `ServerStepsTouchNoConnection` and `EmitEffect` are
the two facts most of the cases need. `Invariance` puts them together.

`ContractProofs` proves every property of Decisions, for any set of cases: labels,
values, policies, tools, word tables, signals and suggestions, paths and documents of any
size. It assumes `CaseAssumption` (an event, a policy and a tool look as the code's
types and regular expressions have them: a policy has each class once with a finite list of
values, a path in a description starts with `/` or `./`) and `LabelAssumption`
(there is a label that is not empty). The inductive invariant is small, since all that a
republication changes is the signals and the verdict:

    IInv == /\ event \in Event /\ IsPolicy(policy) /\ tools \subseteq ToolType
            /\ DOMAIN signals = CapabilityId
            /\ tools # {} => signals = manifest_signals(tools)
            /\ verdict # "none" => verdict = Verdict(signals)

and the work is in the lemmas about the operators:

* `EnforcementAgrees`: `Spec => []ProxyAgreesWithMonitor`, from `PlanIsGrant`: `allowed`
  under `egress_plan` is the grant test of `classify_event`.
* `GrantsImplied`: `Spec => []GrantsAreImplied`, from `InferredIsImplied`: of an inferred
  class the two merges of the signals yield the same values.
* `GrowthIsHarmless`: `Spec => GrowthNeverCreatesViolations`, an action property, from
  `ImpliedOnlyGrows` and `MoreToolsMoreSignals`: when a class of unknown scope drops its
  concrete values, everything it implied is still implied.
* `GrantsLiteral` and `RoutesStayRoutes`: `GrantsAreLiteral`, `RoutesAreNoPaths`, over the
  rules of `Classifier`; `LlmGrantsNothing`: any two sets of suggestions give the same grants.
* `PathsAreContained`: `PathMatchIsContainment`. `normpath` and the reference walk are both
  recursive; `NormalisedByWalking` ties the one to the other component by component.
* `EditsAreKept` and `ProjectionFaithful`: `EditsAreHonoured`, `BaseIsFaithful`, for every
  edit of a capability list of any length. The strict projection of a policy with an empty
  host or variable name is left aside (`HasNames`): the import drops those.
* `SandboxIsTheGrant`: `SandboxMatchesPolicy`. `RunArgs` says which flags a command has,
  as a set; the deepest mount above a path exists because the prefixes of a path are
  finitely many (`DeepestMount`).

`Recursion` has the induction these need. The library's induction theorems take an operator
as a parameter, which no installed prover instantiates; `InductiveSet` states induction over
the numbers for a *set*, from the fact that a set of numbers has a least member (`WFMin`).
The lemma `LoopExists` then says that a loop whose step stays in a set is a function into that
set, which is what makes a recursive definition of the model equal to its equation, and
`PickedIs` and `FlattenedIsASeq` apply it to the loops that more than one proof meets.

`MonitorProofs`, for every adapter, stream and configuration, from
`MonitorAssumption` and `EventAssumption` (the sets the module is given fit
together; an event's call is a tool or none):

* `LiveIsAudit`: `Spec => ImplementsAudit`, the refinement. Each step of the run
  maps to a step of `Audit` or a stutter.
* `NothingIsDropped`, `EffectsMatchTheReport`, `TypeCorrect`.

`IInv == TypeOK /\ PumpInv /\ QueueInv /\ HistInv /\ LimitInv /\ EffectInv /\
NothingDroppedSilently`. The heart is `QueueInv`: what was yielded is the report,
then the event in hand, then the queue, in this order; so the event that `Handle`
appends is the next one of the stream and the pump's lead does not matter.
`HistInv` says that report and context are those of the positional definition,
which needs a greatest element of a finite set of positions (`GreatestMember`).

From the same invariant, over recordings of any length:

* `AuditIsPositional`: `Spec => []LoopIsPositional`. `LoopIsReport` is the induction over
  the loop of `classify_events`.
* `AuditOfRunAgrees`: `Spec => []ReauditAgrees`; stamping a stamped event again changes
  nothing, and leaves the calls, hence every context, where they were.
* `SarifIsSound` and `FeedsAreOneStory`: `Spec => []SarifIsFaithful`, `Spec => []FeedsAgree`,
  for every cap and every fleet, from `ExportAssumption` (the cap is a number; the verdict on a
  call marker is *within policy*, as `classify_event` has it). They are instances of
  `SarifOfAnyFleet` and `FeedsOfAnyFleet`, about any sequence of reports whose classes are the
  verdicts. `SaysOf(log, rows, k)` is the loop invariant: the results are those of the first
  rows up to the cap, the rules are those the results point at, and the rest is counted.

`SessionProofs`, for fleets of any size: `TheVerdictIsTheExitCode`,
`TheBatchGoesOn`, `ServersAreStopped`, `TypeCorrect`. Steps that are left are a tail
of the verb's steps, so `StepTable` and `ContinueMoves` turn the sequence into the
name of the step at hand once and for all; a step then ends in one of four ways
(`RaiseKeeps`, `EnvelopeKeeps`, `ReturnKeeps`, `ContinueKeeps`). The invariant adds to the
types where control is (`ControlInv`), which servers have an envelope
(`BatchInv`), who may be running (`BackendInv`), and what each status and each
step reached says of the server's truth (`VerdictInv`). The two exceptions, the batch
that an unhashable manifest aborts and the server left running by a refusal of
`Monitor`, are part of the properties.

`PolicyFilesProofs`, for any number of servers, files, manifest contents,
republications and reviews, from `BoundsAssumption` and `VersionAssumption` (no
content is called like the two marks for "none"):

* `DocumentsAreSound`: whoever writes, a bound document carries approvals of its own
  manifest only (`DocInv == TypeOK /\ SoundInv`).
* `VerdictsAreEarned`: with `GateInv`, that as long as nothing differed, what the gate
  has read is what is published and on disk now.
* `FailuresAreContained`, and `BatchLeavesItsPolicies` with `PlaceInv` (where the batch is)
  and `OutcomeInv`, which says how the files stand in the first pass, in the second
  pass and at the end.

`DockerProofs`, for any endpoints, pids, number of proxy events and of blocks, and
a daemon that fails at will: `LiveServersStayWatched`, `PolledIsYielded`, `EventsAreDelivered`,
`TheProxyIsStopped`, `EnforcementIsReal`. The invariant needs two facts the properties
do not mention: the gateway is read before the first poll and then never again
(`GatewayInv`), so that "the hop" means the same in every poll, and a stream past its loop
has seen the container gone (`EndInv`), so that what the last drain finds in the
queue is at least everything up to the exit.

`RelayProofs`, for any number of chunks and any timeout: `NothingIsTruncated`. A pump holds
one chunk at most (`ChunkInv`), the sockets are shut only by a pump that failed (`FailInv`), and one
that left its loop without a failure has seen the end of its direction (`EofInv`).

Only model-checked: the five liveness properties (`TimedRunReturns`, `StopReturns`,
`HandlersProgress`, `RelayEnds`, `ExitFinishesStream`), since fairness and ENABLED are outside
what the prover handles. Every other property of a passing run is a theorem. TLC evaluates
the assumptions on the constants in each run.

## 5. Where the code and its documents differ

* **A timed run may not return** (`monitor_slow_block`). `pkg/bcm/monitor.py:93-94`
  promises that `run` returns on time regardless of the adapter; `block()` is
  called without a bound.
* **A tunnel can outlive `stop()`** (`proxy_stop_race`), against
  `pkg/proxy/server.py:504-506`.
* **An attempt without an event** (`proxy_unlogged`), against invariant 4 of
  `docs/DESIGN-egress-proxy.md`: `socket.create_connection` raises `UnicodeError`
  for a name with an empty or over-long label, and that is no `OSError`.
* **The stream raises on server exit** (`docker_exit`), against
  `pkg/ral/base.py:72-73`. For the same reason `block()` raises for a container
  that was already reaped, which its docstring says is tolerated.
* **A broken pipeline exits with 1** (`session_signal`), against
  `pkg/cli.py:51-54`: `main` maps three kinds of exception, and the traceback of
  any other ends with the code of a violation. A write that fails after the
  verdict is known replaces the verdict in the same way, and so does a manifest that
  cannot be hashed.

Seen while modelling, and not made a run of its own:

* `NoServerOutlivesTheCommand` has an exception because the server is started before
  its monitor is made. `Fleet._run_one` returns without stopping it when `Monitor()`
  raises, for a drifted manifest or one that cannot be hashed (`pkg/fleet.py:901-913`);
  `_cmd_run` makes its monitor inside the `try` whose `finally` stops the server.
* `OneServerNeverAbortsTheBatch` has an exception because `Fleet._verify_one` compares the
  hashes outside its `try` blocks (`pkg/fleet.py:825`). A manifest that is read and cannot be
  hashed (a YAML manifest with a date in a tool's schema makes `json.dumps` raise
  `TypeError`) leaves the comprehension of `verify_all` and ends the batch with code 1.
  The comment at `pkg/fleet.py:852-857` and `tests/test_fleet.py:190-192`, `208-211` have every
  failure of one server as that server's status, so that it masks no sibling's.
* The idle timeout of a tunnel is armed per socket: a tunnel that is busy in one
  direction only is torn down when the other has been silent for its length.
* `path_matches` with a relative prefix is textual: nothing but `.` is under `.`.
  `PathMatchIsContainment` therefore speaks of absolute prefixes.
* A storage value that ends in `*` is a literal name for the monitor and a glob
  for policy-mcp, so that a projection read back can be wider, and the monitor
  keeps two leading slashes apart where docker does not. `BaseIsFaithful` and
  `SandboxMatchesPolicy` leave such values aside.
* `pkg/pie/classifier.py:4` lets a rule grant only a concretely known scope; a URL
  `https://*/...` yields the host `*` with status `inferred`.
* `_net_context` promises "any network signal" and leaves out a parameter that is a
  URI by its schema format alone, so that a route next to it can become a path grant.
* With env `*` granted, `run` hands the container no variable and `fleet run` all of
  the launch entry. A write grant alone makes its mount readable.
* Editing the extension block leaves the `permissions` block as it was: a consumer that
  reads only that block sees what the reviewer took away (`EditsAreHonoured`).
* A strict projection is bound to no manifest, so that `verify` and `run` take one for a
  rug pull.
* `_reproject_written_base` speaks of the "just-written" policies and rewrites every
  policy file of the fleet, also those of skipped and failed servers, which lose
  their binding and their review status; an unreadable one aborts the batch after
  the others were written.
* Inferring again overwrites a reviewed policy, on purpose or not; `fleet infer -o OUTDIR`
  writes to the `policy:` path of the configuration where there is one, and two ids or
  paths that coincide overwrite each other silently.
* A gate may read a policy and a manifest that fit and were never there together (a server
  that publishes, infers and rolls back between the two reads). `VerdictIsEarned` promises
  nothing against it.
* `docs/research/fleet-config.md:392` says that a server's `egress_proxy` enables
  hostname-level enforcement; the loader keeps the setting (`pkg/fleet.py:969`) and
  `Fleet._run_one` makes the adapter without it (`pkg/fleet.py:897`).
* Servers that are skipped or refused for drift put nothing into the SARIF log.

## 6. What is left out, and why

* The parsers of `/proc/net` and `docker top`, manifest parsing, YAML and JSON, hashes
  other than by being equal or not or not to be had, the argument parser and all printing: text in,
  text out, without a decision the properties read.
* The classifier's regular expressions and word tables (what they find is an input),
  its evidence texts, and the order of values.
* The loading of client and fleet configurations, redaction, and the serializers of the
  fleet report.
* Messages, ECS categories and observables of the exports: a SIEM row holds the event
  itself in their place.
* Connections that start and end between two polls, and a pid the kernel reuses:
  both are limits of polling; the properties speak of what a poll has read.
* In `DockerAdapter`, `docker stop` of the proxy is one step (the proxy's own
  `stop` is EgressProxy's subject), a `docker run` that prints no container
  id is a launch that failed, and the two forms of `docker top` that a poll
  tries are one step: no state changes between them, and the second is asked only when
  the first has failed.
* In `EgressProxy`, `stop()` before `start()`, which no caller in the repository
  does, and a thread that cannot be created.
* In `Session`, Ctrl-C is modelled while a server is monitored and nowhere else;
  the `infer` verbs are in `PolicyFiles`, the stand-alone `proxy` command is not modelled.
* In `PolicyFiles` a torn file cannot be read. One cut inside its list of values, which
  takes a document longer than a write buffer, could still parse.
* Overrides of `infer_policy` are in the operator but no run gives any.

## 7. Plan

Done: the decision rules with the classifier, documents and launch arguments; Audit,
Monitor, Export and the refinement; EgressProxy, Relay, DockerAdapter, Session and
PolicyFiles; all their safety proved. Next, in this order:

1. The composition of Monitor and DockerAdapter: a block from the consumer while
   the pump is inside a poll, and the error of a stream whose run has returned.
2. Abstract specifications of the relay (two pipes, each delivering a prefix of what was
   sent) and of the proxy (an attempt is decided and logged before it flows), with
   refinement proofs like `LiveIsAudit`.
3. The loading of fleet and client configurations: selection, defaults, identifiers that
   coincide.
