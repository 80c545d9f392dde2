---------------------------- MODULE PolicyFiles ----------------------------
(***************************************************************************)
(* The policy files between the commands: `infer` and `fleet infer` write  *)
(* them (cli.py, Fleet.infer_all), a reviewer edits them, servers          *)
(* republish their manifests, and a gate (verify, run and their fleet      *)
(* forms) reads manifest and policy to decide whether they still belong    *)
(* together.  Nothing locks anything, so all of it interleaves.            *)
(*                                                                         *)
(* A document keeps what the gate and a reviewer rely on: its form, the    *)
(* manifest it is bound to, and the manifests its approvals were made on.  *)
(* Writing truncates the file first ("torn": neither form can be read).    *)
(***************************************************************************)
EXTENDS Naturals, TLC

CONSTANTS
    MaxServers,     \* bound: servers in a fleet
    File,           \* policy files
    Version,        \* manifest contents
    MaxChanges      \* bound: republications and opened reviews

ASSUME BoundsAssumption == MaxServers \in Nat \ {0} /\ MaxChanges \in Nat

Symmetry == Permutations(File) \cup Permutations(Version)

VARIABLES published, file, editor, changes, infer, gate, differed

vars == <<published, file, editor, changes, infer, gate, differed>>

Server  == 1..MaxServers        \* in the order of the fleet
Unbound == ""
Absent  == [form |-> "absent", bound |-> Unbound, approved |-> {}]
Torn    == [form |-> "torn",   bound |-> Unbound, approved |-> {}]
Full(v, a) == [form |-> "full", bound |-> v, approved |-> a]
Base(a)    == [form |-> "base", bound |-> Unbound, approved |-> a]

(* load_policy accepts it.                                                 *)
Readable(doc) == doc.form \in {"full", "base"}

NoDoc   == [form |-> "none", bound |-> Unbound, approved |-> {}]
NotRead == "not read"

ASSUME VersionAssumption == Version \cap {Unbound, NotRead} = {}

(* A file may be missing, unreadable or reviewed already.  infer.target is *)
(* where -o sends a policy: FILE, the policy path of the configuration, or *)
(* OUTDIR/<id>.policy.yaml; identifiers and paths may coincide.            *)
Init ==
    /\ published \in [Server -> Version]
    /\ file \in [File -> {Absent, Torn} \cup {Full(v, {v}) : v \in Version}]
    /\ editor = [file |-> {}, doc |-> NoDoc]
    /\ changes = 0
    /\ infer \in [pc : {"idle"}, verb : {"infer", "fleet_infer"}, emit : {"full", "base"},
                  target : [Server -> File], at : {1}, doc : {NoDoc},
                  status : {[s \in Server |-> "none"]}, basis : {[s \in Server |-> NotRead]},
                  wrote : {{}}, exit : {"none"}]
    /\ gate \in [pc : {"idle"}, verb : {"verify", "fleet_verify"},
                 manifest : {NotRead}, policy : {NoDoc}, verdict : {"none"}]
    /\ differed = FALSE

-----------------------------------------------------------------------------
(* The inferring command.                                                  *)

InferAt(pc) == infer.pc = pc
Current     == infer.at
Target      == infer.target[Current]
Elsewhere   == UNCHANGED <<published, editor, changes, gate>>
Selected    == IF infer.verb = "infer" THEN {1} ELSE Server

(* `fleet infer` looks at its sources before it writes anything.           *)
BeginInfer ==
    /\ InferAt("idle")
    /\ \/ infer' = [infer EXCEPT !.pc = "server"]
       \/ /\ infer.verb = "fleet_infer"
          /\ infer' = [infer EXCEPT !.pc = "done", !.exit = "bad input"]
    /\ UNCHANGED file /\ Elsewhere

(* What follows the envelope of a server: the next one, then the second    *)
(* pass over the fleet when the strict form was asked for, then the report. *)
(* In `infer`, which files no envelopes, main() gets the exception.        *)
exit_code(status) == IF \A s \in Selected : status[s] = "ok" THEN "ok" ELSE "bad input"
Raised(i)         == [i EXCEPT !.pc = "done", !.exit = "raised"]

AfterEnvelope(i) ==
    CASE i.at + 1 \in Selected -> [i EXCEPT !.at = @ + 1, !.pc = "server"]
      [] i.at + 1 \notin Selected /\ i.emit = "base" /\ i.verb = "fleet_infer" ->
            [i EXCEPT !.at = 1, !.pc = "reproject"]
      [] OTHER -> [i EXCEPT !.pc = "done", !.exit = exit_code(i.status)]

Envelope(i, status) == AfterEnvelope([i EXCEPT !.status[i.at] = status])

Failed(i, status) == IF i.verb = "infer" THEN Raised(i) ELSE Envelope(i, status)

(* `infer` projects before it writes, `fleet infer` afterwards.            *)
Inferred == IF infer.verb = "infer" /\ infer.emit = "base" THEN Base({})
            ELSE Full(published[Current], {})

InferOk == infer' = [infer EXCEPT !.pc = "dump", !.doc = Inferred,
                                  !.basis[Current] = published[Current]]

(* Mutant: the file is opened before there is anything to write.           *)
InferOneIntoOpenFile ==
    /\ InferAt("server")
    /\ InferOk \/ infer' = Failed(infer, "skipped")
    /\ file' = [file EXCEPT ![Target] = Torn]
    /\ Elsewhere

(* _infer_one up to the write: the environment, the manifest, the rules.   *)
InferOne ==
    /\ InferAt("server")
    /\ InferOk \/ \E status \in {"skipped", "error"} : infer' = Failed(infer, status)
    /\ UNCHANGED file /\ Elsewhere

(* Mutant: what was approved before is carried over to the new document.   *)
DumpKeepingApprovals ==
    /\ InferAt("dump")
    /\ file' = [file EXCEPT ![Target] = Torn]
    /\ infer' = [infer EXCEPT !.pc = "fill", !.doc.approved = file[Target].approved]
    /\ Elsewhere

(* dump_policy: write_text opens the file, which truncates it ...          *)
Dump ==
    /\ InferAt("dump")
    /\ \/ file' = [file EXCEPT ![Target] = Torn] /\ infer' = [infer EXCEPT !.pc = "fill"]
       \/ infer' = Failed(infer, "error") /\ UNCHANGED file
    /\ Elsewhere

(* ... and fills it.                                                       *)
Fill ==
    /\ InferAt("fill")
    /\ \/ /\ file' = [file EXCEPT ![Target] = infer.doc]
          /\ infer' = Envelope([infer EXCEPT !.wrote = @ \cup {Target}], "ok")
       \/ infer' = Failed(infer, "error") /\ UNCHANGED file
    /\ Elsewhere

(* _reproject_written_base: every policy file of the fleet that is there.  *)
(* A grant the strict form has no key for (an environment name with a star *)
(* that a reviewer wrote) raises before anything is written.               *)
AfterReproject(i) ==
    IF i.at + 1 \in Selected THEN [i EXCEPT !.at = @ + 1, !.pc = "reproject"]
    ELSE [i EXCEPT !.pc = "done", !.exit = exit_code(i.status)]

Reproject ==
    /\ InferAt("reproject")
    /\ CASE file[Target].form = "absent" ->
              infer' = AfterReproject(infer) /\ UNCHANGED file
         [] file[Target].form # "absent" /\ ~ Readable(file[Target]) ->
              infer' = Raised(infer) /\ UNCHANGED file
         [] Readable(file[Target]) ->
              \/ /\ infer' = [infer EXCEPT !.pc = "refill", !.doc = Base(file[Target].approved)]
                 /\ file' = [file EXCEPT ![Target] = Torn]
              \/ infer' = Raised(infer) /\ UNCHANGED file
    /\ Elsewhere

Refill ==
    /\ InferAt("refill")
    /\ \/ infer' = AfterReproject(infer) /\ file' = [file EXCEPT ![Target] = infer.doc]
       \/ infer' = Raised(infer) /\ UNCHANGED file
    /\ Elsewhere

(* Ctrl-C and the like: the process is gone, its half-written file stays.  *)
Killed ==
    /\ infer.pc \notin {"idle", "done"}
    /\ infer' = [infer EXCEPT !.pc = "done", !.exit = "killed"]
    /\ UNCHANGED file /\ Elsewhere

-----------------------------------------------------------------------------
(* The gate, here on the first server.                                     *)

Gated     == 1
GatedFile == file[infer.target[Gated]]
Aside     == UNCHANGED <<published, file, editor, changes, infer>>

(* `verify` and `run` load the manifest first, a fleet the policy.         *)
Order(verb) == IF verb = "verify" THEN <<"manifest", "policy">> ELSE <<"policy", "manifest">>
Reading(what) ==
    \/ gate.pc = "first"  /\ Order(gate.verb)[1] = what
    \/ gate.pc = "second" /\ Order(gate.verb)[2] = what
NextPc == IF gate.pc = "first" THEN "second" ELSE "compare"

BeginGate ==
    /\ gate.pc = "idle"
    /\ gate' = [gate EXCEPT !.pc = "first"]
    /\ Aside

LoadManifest ==
    /\ Reading("manifest")
    /\ \/ gate' = [gate EXCEPT !.pc = NextPc, !.manifest = published[Gated]]
       \/ gate' = [gate EXCEPT !.pc = "done", !.verdict = "error"]
    /\ Aside

LoadPolicy ==
    /\ Reading("policy")
    /\ gate' = IF Readable(GatedFile)
               THEN [gate EXCEPT !.pc = NextPc, !.policy = GatedFile]
               ELSE [gate EXCEPT !.pc = "done", !.verdict = "error"]
    /\ Aside

(* Mutant: a policy that is bound to nothing is let through.               *)
CompareUnboundPasses ==
    /\ gate.pc = "compare"
    /\ \/ gate' = [gate EXCEPT !.pc = "done",
                     !.verdict = IF gate.policy.bound \in {gate.manifest, Unbound}
                                 THEN "pass" ELSE "rug_pull"]
       \/ gate' = [gate EXCEPT !.pc = "done", !.verdict = "error"]
    /\ Aside

(* verify_manifest_hash; a manifest may not be hashable                    *)
Compare ==
    /\ gate.pc = "compare"
    /\ \/ gate' = [gate EXCEPT !.pc = "done",
                     !.verdict = IF gate.policy.bound = gate.manifest
                                 THEN "pass" ELSE "rug_pull"]
       \/ gate' = [gate EXCEPT !.pc = "done", !.verdict = "error"]
    /\ Aside

-----------------------------------------------------------------------------
(* The world: a server's author, and a reviewer with an editor.            *)

Publish ==
    /\ changes < MaxChanges
    /\ \E s \in Server : \E v \in Version \ {published[s]} :
          published' = [published EXCEPT ![s] = v]
    /\ changes' = changes + 1
    /\ UNCHANGED <<file, editor, infer, gate>>

OpenReview ==
    /\ changes < MaxChanges /\ editor.file = {}
    /\ \E f \in File : Readable(file[f]) /\ editor' = [file |-> {f}, doc |-> file[f]]
    /\ changes' = changes + 1
    /\ UNCHANGED <<published, file, infer, gate>>

(* The editor writes back the document it opened, approvals added: what    *)
(* the reviewer has seen is what that document was inferred from.          *)
SaveReview ==
    /\ editor.file # {}
    /\ file' = [f \in File |->
                  IF f \in editor.file
                  THEN [editor.doc EXCEPT !.approved = @ \cup ({editor.doc.bound} \ {Unbound})]
                  ELSE file[f]]
    /\ editor' = [file |-> {}, doc |-> NoDoc]
    /\ UNCHANGED <<published, changes, infer, gate>>

-----------------------------------------------------------------------------
(* Whether, at some moment since the gate began, the gated server's policy *)
(* was not whole or not bound to the manifest published then.              *)
Differs == ~ (Readable(GatedFile) /\ GatedFile.bound = published[Gated])

Watch ==
    differed' = (differed \/ (gate'.pc \in {"first", "second", "compare"} /\ Differs'))

Step ==
    \/ BeginInfer \/ InferOne \/ Dump \/ Fill \/ Reproject \/ Refill \/ Killed
    \/ BeginGate \/ LoadManifest \/ LoadPolicy \/ Compare
    \/ Publish \/ OpenReview \/ SaveReview

Next == Step /\ Watch

Spec == Init /\ [][Next]_vars

-----------------------------------------------------------------------------
(* Properties.                                                             *)

(* A gate reads manifest and policy one after the other while anyone may   *)
(* write, and still cries wolf at nobody: it reports a rug pull only when  *)
(* the two did differ at a moment of its command.  What it lets through    *)
(* was approved, as far as anyone approved it, on a document inferred from *)
(* this very manifest: republishing and inferring again asks for a review. *)
(* (_cmd_verify, Fleet._load_contract, verify_manifest_hash)               *)
VerdictIsEarned ==
    /\ gate.verdict = "rug_pull" => differed
    /\ gate.verdict = "pass" => gate.policy.approved \subseteq {gate.manifest}

LastInto(s) == \A t \in Selected : t > s => infer.target[t] # infer.target[s]

(* When `infer` is done and reports a server as ok, its file holds a policy *)
(* inferred from the manifest it read and bound to it, in the form asked   *)
(* for, unless a later server of the fleet has the same file; and a        *)
(* command that exits with 0 has left such a file for every server.        *)
(* (Fleet._infer_one, _cmd_fleet_infer, _cmd_infer)                        *)
InferLeavesItsPolicy ==
    infer.exit \in {"ok", "bad input"} /\ changes = 0 =>
        /\ infer.exit = "ok" => \A s \in Selected : infer.status[s] = "ok"
        /\ \A s \in Selected : infer.status[s] = "ok" /\ LastInto(s) =>
              file[infer.target[s]] = IF infer.emit = "full" THEN Full(infer.basis[s], {})
                                                             ELSE Base({})

InferStep == infer' # infer
NotInferred(f) == \A s \in Selected : infer.target[s] = f => infer.basis[s] = NotRead

(* A command that writes full policies leaves the file of a server it      *)
(* could not infer a policy for alone: the approvals in it survive.  With  *)
(* --emit base they do not: the second pass rewrites every policy file     *)
(* that is there, those of skipped servers included.                       *)
(* (Fleet._infer_one: skipped and error return before the write)           *)
FailuresKeepTheirPolicy ==
    [][InferStep /\ infer.emit = "full" =>
          \A f \in File : file'[f] # file[f] => ~ NotInferred(f)]_vars
=============================================================================
